---- MODULE Spec2Model ----
(***************************************************************************)
(* Model of the fridge time relay firmware (fridge_time_relay.ino): the    *)
(* tick interrupt, the sticky scheduler flags, the loop() dispatcher, the  *)
(* relay control policy (duty-cycle timer with over-cooling cutoff, and    *)
(* hysteresis thermostat), the encoder menu and the configuration store.   *)
(*                                                                         *)
(* Conventions.                                                            *)
(*  - Temperatures (C float) are integers in tenths of a degree Celsius;   *)
(*    the float value NaN is the distinguished value NaN, and every float  *)
(*    comparison of the source goes through FLt/FLe/FGt/FGe/FNe, which     *)
(*    are false (FNe: true) as soon as one operand is NaN.                 *)
(*  - Every function of the source that changes globals is an operator     *)
(*    from a state record (one field per global) to a state record, so     *)
(*    that calls compose as they do in the source.  Actions apply one such *)
(*    operator to the current state.                                       *)
(***************************************************************************)
EXTENDS Integers, Sequences, FiniteSets, TLC

VARIABLES
  relayState, desiredRelayState, currentPhaseIndex, elapsedSeconds,
  temperatureSensorAvailable, temperatureConversionPending,
  timerCoolingPauseActive, currentTemperatureC, deviceConfig,
  thermostatCoolingDemand, doorSensorAvailable, doorOpen,
  uiState, menuSelectionIndex, editState, encoderState,
  encoderPendingDelta, encoderButtonClicked,
  displayUpdateRequested, temperatureUpdateRequested, doorSampleRequested,
  timerSecondTickRequested, thermostatControlRequested, encoderSampleRequested,
  PHASES,        \* the phase table (durations are rewritten at run time)
  eeprom,        \* the DeviceConfig record held at CONFIG_EEPROM_ADDRESS
  relayPin,      \* level last written to RELAY_PIN
  interruptsEnabled, \* the global interrupt enable bit of the processor
  trace,         \* what the last step did, in order, where it is observed:
                 \* calls of the activity handlers, writes of RELAY_PIN,
                 \* accesses to the flags in the main context (observer)
  isrCounters,   \* the six static counters of ISR(TIMER1_COMPA_vect)
  baseTicks,     \* executions of ISR(TIMER1_COMPA_vect) since reset (observer)
  encoderSeen,   \* what the encoder pins showed and what the consumes returned (observer)
  pc,            \* position of the main context inside loop()
  stale,         \* per flag: loop() passes begun since it was raised (observer)
  uiEvents,      \* number of user inputs (encoder, serial) processed so far (observer)
  burst          \* of one flag that is watched: the raises by the interrupt since
                 \* its last consume and, right after a consume of it, the
                 \* number of raises that the consume found (observer)

vars == <<relayState, desiredRelayState, currentPhaseIndex, elapsedSeconds,
          temperatureSensorAvailable, temperatureConversionPending,
          timerCoolingPauseActive, currentTemperatureC, deviceConfig,
          thermostatCoolingDemand, doorSensorAvailable, doorOpen,
          uiState, menuSelectionIndex, editState, encoderState,
          encoderPendingDelta, encoderButtonClicked,
          displayUpdateRequested, temperatureUpdateRequested,
          doorSampleRequested, timerSecondTickRequested,
          thermostatControlRequested, encoderSampleRequested,
          PHASES, eeprom, relayPin, interruptsEnabled, trace,
          isrCounters, baseTicks, encoderSeen, pc, stale, uiEvents, burst>>

(***************************************************************************)
(* Program constants.                                                      *)
(***************************************************************************)
OPERATION_MODE_TIMER == 0
OPERATION_MODE_THERMOSTAT == 1

THERMOSTAT_HYSTERESIS_C == 10
DEFAULT_THERMOSTAT_TARGET_C == -120
THERMOSTAT_MIN_TARGET_C == -300
THERMOSTAT_MAX_TARGET_C == 50
DEFAULT_TIMER_STOP_TEMP_C == -180
DEFAULT_TIMER_RESUME_TEMP_C == -150
TIMER_TEMP_MIN_C == -400
TIMER_TEMP_MAX_C == 150
DEFAULT_FREEZE_DURATION_SECONDS == 30 * 60
DEFAULT_WAIT_DURATION_SECONDS == 45 * 60
MIN_PHASE_DURATION_SECONDS == 30
MAX_PHASE_DURATION_SECONDS == 6 * 60 * 60
CONFIG_VERSION == 2
DISPLAY_REFRESH_INTERVAL_MS == 250
DOOR_SAMPLE_INTERVAL_MS == 50
TEMPERATURE_POLL_INTERVAL_MS == 250
TIMER_SECOND_INTERVAL_MS == 1000
THERMOSTAT_CONTROL_INTERVAL_MS == 500
ENCODER_SAMPLE_INTERVAL_MS == 5
PHASE_COUNT == 2
MENU_ITEM_COUNT == 7
DEVICE_DISCONNECTED_C == -1270
EDIT_STEP_C == 5
EDIT_STEP_SECONDS == 60

UI_STATE_IDLE == "UI_STATE_IDLE"
UI_STATE_MENU_SELECT == "UI_STATE_MENU_SELECT"
UI_STATE_EDIT_VALUE == "UI_STATE_EDIT_VALUE"

MENU_ITEM_MODE == 0
MENU_ITEM_FREEZE_DURATION == 1
MENU_ITEM_WAIT_DURATION == 2
MENU_ITEM_STOP_TEMP == 3
MENU_ITEM_RESUME_TEMP == 4
MENU_ITEM_THERMOSTAT_TARGET == 5
MENU_ITEM_EXIT == 6

\* MENU_ITEMS[i].type for i in 0 .. MENU_ITEM_COUNT-1
MENU_ITEMS == [i \in 0..(MENU_ITEM_COUNT - 1) |-> i]

(***************************************************************************)
(* float: tenths of a degree, or NaN.                                      *)
(***************************************************************************)
NaN == 999999

FLt(a, b) == a # NaN /\ b # NaN /\ a < b
FLe(a, b) == a # NaN /\ b # NaN /\ a <= b
FGt(a, b) == a # NaN /\ b # NaN /\ a > b
FGe(a, b) == a # NaN /\ b # NaN /\ a >= b
FNe(a, b) == a = NaN \/ b = NaN \/ a # b
FAdd(a, b) == IF a = NaN \/ b = NaN THEN NaN ELSE a + b

\* static_cast<int>(uint32_t) on the 16-bit int of the target
ToInt16(n) == ((n + 32768) % 65536) - 32768

(***************************************************************************)
(* The state record: one field per global of the sketch.                   *)
(***************************************************************************)
State ==
  [relayState |-> relayState, desiredRelayState |-> desiredRelayState,
   currentPhaseIndex |-> currentPhaseIndex, elapsedSeconds |-> elapsedSeconds,
   temperatureSensorAvailable |-> temperatureSensorAvailable,
   temperatureConversionPending |-> temperatureConversionPending,
   timerCoolingPauseActive |-> timerCoolingPauseActive,
   currentTemperatureC |-> currentTemperatureC, deviceConfig |-> deviceConfig,
   thermostatCoolingDemand |-> thermostatCoolingDemand,
   doorSensorAvailable |-> doorSensorAvailable, doorOpen |-> doorOpen,
   uiState |-> uiState, menuSelectionIndex |-> menuSelectionIndex,
   editState |-> editState, encoderState |-> encoderState,
   encoderPendingDelta |-> encoderPendingDelta,
   encoderButtonClicked |-> encoderButtonClicked,
   displayUpdateRequested |-> displayUpdateRequested,
   temperatureUpdateRequested |-> temperatureUpdateRequested,
   doorSampleRequested |-> doorSampleRequested,
   timerSecondTickRequested |-> timerSecondTickRequested,
   thermostatControlRequested |-> thermostatControlRequested,
   encoderSampleRequested |-> encoderSampleRequested,
   PHASES |-> PHASES, eeprom |-> eeprom, relayPin |-> relayPin,
   interruptsEnabled |-> interruptsEnabled, trace |-> <<>>]

\* the globals take the values of the record s
GlobalsBecome(s) ==
  /\ relayState' = s.relayState
  /\ desiredRelayState' = s.desiredRelayState
  /\ currentPhaseIndex' = s.currentPhaseIndex
  /\ elapsedSeconds' = s.elapsedSeconds
  /\ temperatureSensorAvailable' = s.temperatureSensorAvailable
  /\ temperatureConversionPending' = s.temperatureConversionPending
  /\ timerCoolingPauseActive' = s.timerCoolingPauseActive
  /\ currentTemperatureC' = s.currentTemperatureC
  /\ deviceConfig' = s.deviceConfig
  /\ thermostatCoolingDemand' = s.thermostatCoolingDemand
  /\ doorSensorAvailable' = s.doorSensorAvailable
  /\ doorOpen' = s.doorOpen
  /\ uiState' = s.uiState
  /\ menuSelectionIndex' = s.menuSelectionIndex
  /\ editState' = s.editState
  /\ encoderState' = s.encoderState
  /\ encoderPendingDelta' = s.encoderPendingDelta
  /\ encoderButtonClicked' = s.encoderButtonClicked
  /\ displayUpdateRequested' = s.displayUpdateRequested
  /\ temperatureUpdateRequested' = s.temperatureUpdateRequested
  /\ doorSampleRequested' = s.doorSampleRequested
  /\ timerSecondTickRequested' = s.timerSecondTickRequested
  /\ thermostatControlRequested' = s.thermostatControlRequested
  /\ encoderSampleRequested' = s.encoderSampleRequested
  /\ PHASES' = s.PHASES
  /\ eeprom' = s.eeprom
  /\ relayPin' = s.relayPin
  /\ interruptsEnabled' = s.interruptsEnabled

\* a step that leaves the globals as in s, what it did not being observed
Becomes(s) ==
  /\ GlobalsBecome(s)
  /\ trace' = <<>>
  /\ burst' = burst

\* a step that leaves the globals as in s, what it did being observed
Does(s) ==
  /\ GlobalsBecome(s)
  /\ trace' = s.trace

(***************************************************************************)
(* Flag exchange.                                                          *)
(***************************************************************************)
\* an entry of the trace: what was done, to what, with which value, and the
\* mode, the recorded relay state and the interrupt enable bit at that moment
emit(s, ev, name, value) ==
  [s EXCEPT !.trace = Append(@, [ev |-> ev, name |-> name, value |-> value,
                                 mode |-> s.deviceConfig.mode,
                                 relayState |-> s.relayState,
                                 interruptsEnabled |-> s.interruptsEnabled])]

noInterrupts(s) == [s EXCEPT !.interruptsEnabled = FALSE]

interrupts(s) == [s EXCEPT !.interruptsEnabled = TRUE]

\* flag = true in the main context
setFlag(s, flag) == [emit(s, "write", flag, TRUE) EXCEPT ![flag] = TRUE]

\* the flag is set with the tick interrupt left enabled
requestDisplayRefresh_unmasked(s) == setFlag(s, "displayUpdateRequested")

requestDisplayRefresh(s) ==
  interrupts(setFlag(noInterrupts(s), "displayUpdateRequested"))

\* the elapsed-second flag is raised with the others
requestSchedulerKickstart_six(s) ==
  LET s1 == setFlag(noInterrupts(s), "displayUpdateRequested")
      s2 == setFlag(s1, "temperatureUpdateRequested")
      s3 == setFlag(s2, "doorSampleRequested")
      s4 == setFlag(s3, "thermostatControlRequested")
      s5 == setFlag(s4, "encoderSampleRequested")
  IN interrupts(setFlag(s5, "timerSecondTickRequested"))

requestSchedulerKickstart(s) ==
  LET s1 == setFlag(noInterrupts(s), "displayUpdateRequested")
      s2 == setFlag(s1, "temperatureUpdateRequested")
      s3 == setFlag(s2, "doorSampleRequested")
      s4 == setFlag(s3, "thermostatControlRequested")
      s5 == setFlag(s4, "encoderSampleRequested")
  IN interrupts(s5)

\* consumeSchedulerFlag statement by statement: at.step is the statement to
\* run, at.pending the local variable; masks tells whether noInterrupts()
\* clears the interrupt enable bit
consumeSchedulerFlagFrom(s, flag, at, masks) ==
  CASE at.step = "enter" -> [st |-> s, at |-> [step |-> "noInterrupts", pending |-> FALSE]]
    [] at.step = "noInterrupts" ->
         [st |-> IF masks THEN noInterrupts(s) ELSE s, at |-> [at EXCEPT !.step = "test"]]
    [] at.step = "test" ->
         [st |-> s, at |-> [at EXCEPT !.step = IF s[flag] THEN "assign" ELSE "interrupts"]]
    [] at.step = "assign" -> [st |-> s, at |-> [step |-> "clear", pending |-> TRUE]]
    [] at.step = "clear" ->
         [st |-> [s EXCEPT ![flag] = FALSE], at |-> [at EXCEPT !.step = "interrupts"]]
    [] at.step = "interrupts" -> [st |-> interrupts(s), at |-> [at EXCEPT !.step = "return"]]
    [] at.step = "return" -> [st |-> s, at |-> [at EXCEPT !.step = "enter"]]

\* noInterrupts() is missing
consumeSchedulerFlagStep_unmasked(s, flag, at) ==
  consumeSchedulerFlagFrom(s, flag, at, FALSE)

consumeSchedulerFlagStep(s, flag, at) ==
  consumeSchedulerFlagFrom(s, flag, at, TRUE)

\* the flag is reported and left set
consumeSchedulerFlag_noclear(s, flag) ==
  [pending |-> s[flag],
   st |-> interrupts(emit(noInterrupts(s), "read", flag, s[flag]))]

\* bool consumeSchedulerFlag(volatile bool &flag): the returned value and
\* the state after the call; the test and the clear run with interrupts off
consumeSchedulerFlag(s, flag) ==
  LET s1 == emit(noInterrupts(s), "read", flag, s[flag])
      s2 == IF s1[flag] THEN [emit(s1, "write", flag, FALSE) EXCEPT ![flag] = FALSE]
            ELSE s1
  IN [pending |-> s[flag], st |-> interrupts(s2)]

(***************************************************************************)
(* Relay output.                                                           *)
(***************************************************************************)
relayConnect(s) ==
  [emit(s, "digitalWrite", "RELAY_PIN", TRUE) EXCEPT !.relayState = TRUE, !.relayPin = TRUE]

relayDisconnect(s) ==
  [emit(s, "digitalWrite", "RELAY_PIN", FALSE) EXCEPT !.relayState = FALSE, !.relayPin = FALSE]

\* the cutoff is released as soon as the temperature is above the stop bound
updateRelayOutput_noband(s) ==
  LET timerMode == s.deviceConfig.mode = OPERATION_MODE_TIMER
      pause == IF ~timerMode THEN s.timerCoolingPauseActive
               ELSE s.temperatureSensorAvailable
                    /\ FLe(s.currentTemperatureC, s.deviceConfig.timerStopTempC)
      shouldConnect == IF timerMode /\ pause THEN FALSE ELSE s.desiredRelayState
      s1 == [s EXCEPT !.timerCoolingPauseActive = pause]
  IN IF shouldConnect /\ ~s1.relayState THEN relayConnect(s1)
     ELSE IF ~shouldConnect /\ s1.relayState THEN relayDisconnect(s1)
     ELSE s1

\* the cutoff is held while the sensor does not answer
updateRelayOutput_hold(s) ==
  LET timerMode == s.deviceConfig.mode = OPERATION_MODE_TIMER
      pause == IF ~timerMode THEN s.timerCoolingPauseActive
               ELSE IF s.temperatureSensorAvailable
                 THEN IF ~s.timerCoolingPauseActive
                         /\ FLe(s.currentTemperatureC, s.deviceConfig.timerStopTempC)
                        THEN TRUE
                      ELSE IF s.timerCoolingPauseActive
                         /\ FGe(s.currentTemperatureC, s.deviceConfig.timerResumeTempC)
                        THEN FALSE
                      ELSE s.timerCoolingPauseActive
                 ELSE s.timerCoolingPauseActive
      shouldConnect == IF timerMode /\ pause THEN FALSE ELSE s.desiredRelayState
      s1 == [s EXCEPT !.timerCoolingPauseActive = pause]
  IN IF shouldConnect /\ ~s1.relayState THEN relayConnect(s1)
     ELSE IF ~shouldConnect /\ s1.relayState THEN relayDisconnect(s1)
     ELSE s1

\* the pin is written at every evaluation
updateRelayOutput_always(s) ==
  LET timerMode == s.deviceConfig.mode = OPERATION_MODE_TIMER
      pause == IF ~timerMode THEN s.timerCoolingPauseActive
               ELSE IF s.temperatureSensorAvailable
                 THEN IF ~s.timerCoolingPauseActive
                         /\ FLe(s.currentTemperatureC, s.deviceConfig.timerStopTempC)
                        THEN TRUE
                      ELSE IF s.timerCoolingPauseActive
                         /\ FGe(s.currentTemperatureC, s.deviceConfig.timerResumeTempC)
                        THEN FALSE
                      ELSE s.timerCoolingPauseActive
                 ELSE FALSE
      shouldConnect == IF timerMode /\ pause THEN FALSE ELSE s.desiredRelayState
      s1 == [s EXCEPT !.timerCoolingPauseActive = pause]
  IN IF shouldConnect THEN relayConnect(s1) ELSE relayDisconnect(s1)

updateRelayOutput(s) ==
  LET timerMode == s.deviceConfig.mode = OPERATION_MODE_TIMER
      pause == IF ~timerMode THEN s.timerCoolingPauseActive
               ELSE IF s.temperatureSensorAvailable
                 THEN IF ~s.timerCoolingPauseActive
                         /\ FLe(s.currentTemperatureC, s.deviceConfig.timerStopTempC)
                        THEN TRUE
                      ELSE IF s.timerCoolingPauseActive
                         /\ FGe(s.currentTemperatureC, s.deviceConfig.timerResumeTempC)
                        THEN FALSE
                      ELSE s.timerCoolingPauseActive
                 ELSE FALSE
      shouldConnect == IF timerMode /\ pause THEN FALSE ELSE s.desiredRelayState
      s1 == [s EXCEPT !.timerCoolingPauseActive = pause]
  IN IF shouldConnect /\ ~s1.relayState THEN relayConnect(s1)
     ELSE IF ~shouldConnect /\ s1.relayState THEN relayDisconnect(s1)
     ELSE s1

\* the wanted state is recorded and the output is left for a later evaluation
applyRelayState_deferred(s, shouldConnect) ==
  [s EXCEPT !.desiredRelayState = shouldConnect]

applyRelayState(s, shouldConnect) ==
  updateRelayOutput([s EXCEPT !.desiredRelayState = shouldConnect])

(***************************************************************************)
(* Duty-cycle timer.                                                       *)
(***************************************************************************)
advanceTimer(s) == [s EXCEPT !.elapsedSeconds = @ + 1]

resetTimerState(s) == [s EXCEPT !.elapsedSeconds = 0]

activatePhase(s, phaseIndex) ==
  LET s1 == [s EXCEPT !.currentPhaseIndex = phaseIndex]
      s2 == resetTimerState(s1)
      s3 == applyRelayState(s2, s2.PHASES[s2.currentPhaseIndex].relayConnected)
  IN requestDisplayRefresh(s3)

\* the phase that ends is started again
switchToNextPhase_same(s) ==
  activatePhase(s, s.currentPhaseIndex % PHASE_COUNT)

switchToNextPhase(s) ==
  activatePhase(s, (s.currentPhaseIndex + 1) % PHASE_COUNT)

\* the phase ends one tick late
handleTimerSecondTick_late(s) ==
  LET phaseIndex == s.currentPhaseIndex
      s1 == advanceTimer(s)
  IN IF s1.elapsedSeconds > s1.PHASES[phaseIndex].durationSeconds
       THEN switchToNextPhase(s1)
       ELSE s1

handleTimerSecondTick(s0) ==
  LET s == emit(s0, "call", "handleTimerSecondTick", TRUE) IN
  LET phaseIndex == s.currentPhaseIndex    \* const PhaseConfig &phase
      s1 == advanceTimer(s)
  IN IF s1.elapsedSeconds >= s1.PHASES[phaseIndex].durationSeconds
       THEN switchToNextPhase(s1)
       ELSE s1

(***************************************************************************)
(* Configuration store.                                                    *)
(***************************************************************************)
makeDefaultConfig ==
  [version |-> CONFIG_VERSION,
   mode |-> OPERATION_MODE_TIMER,
   thermostatTargetC |-> DEFAULT_THERMOSTAT_TARGET_C,
   freezeDurationSeconds |-> DEFAULT_FREEZE_DURATION_SECONDS,
   waitDurationSeconds |-> DEFAULT_WAIT_DURATION_SECONDS,
   timerStopTempC |-> DEFAULT_TIMER_STOP_TEMP_C,
   timerResumeTempC |-> DEFAULT_TIMER_RESUME_TEMP_C]

\* a record with any field outside its domain is replaced as a whole
applyConfigBounds_whole(config) ==
  IF \/ config.mode # OPERATION_MODE_TIMER /\ config.mode # OPERATION_MODE_THERMOSTAT
     \/ FLt(config.thermostatTargetC, THERMOSTAT_MIN_TARGET_C)
     \/ FGt(config.thermostatTargetC, THERMOSTAT_MAX_TARGET_C)
     \/ config.freezeDurationSeconds < MIN_PHASE_DURATION_SECONDS
     \/ config.freezeDurationSeconds > MAX_PHASE_DURATION_SECONDS
     \/ config.waitDurationSeconds < MIN_PHASE_DURATION_SECONDS
     \/ config.waitDurationSeconds > MAX_PHASE_DURATION_SECONDS
     \/ FLt(config.timerStopTempC, TIMER_TEMP_MIN_C) \/ FGt(config.timerStopTempC, TIMER_TEMP_MAX_C)
     \/ FLt(config.timerResumeTempC, TIMER_TEMP_MIN_C) \/ FGt(config.timerResumeTempC, TIMER_TEMP_MAX_C)
     \/ FGe(config.timerStopTempC, config.timerResumeTempC)
    THEN makeDefaultConfig
    ELSE config

applyConfigBounds(config) ==
  LET c1 == IF config.mode # OPERATION_MODE_TIMER /\ config.mode # OPERATION_MODE_THERMOSTAT
              THEN [config EXCEPT !.mode = OPERATION_MODE_TIMER] ELSE config
      c2 == IF FLt(c1.thermostatTargetC, THERMOSTAT_MIN_TARGET_C)
               \/ FGt(c1.thermostatTargetC, THERMOSTAT_MAX_TARGET_C)
              THEN [c1 EXCEPT !.thermostatTargetC = DEFAULT_THERMOSTAT_TARGET_C] ELSE c1
      c3 == IF c2.freezeDurationSeconds < MIN_PHASE_DURATION_SECONDS
               \/ c2.freezeDurationSeconds > MAX_PHASE_DURATION_SECONDS
              THEN [c2 EXCEPT !.freezeDurationSeconds = DEFAULT_FREEZE_DURATION_SECONDS] ELSE c2
      c4 == IF c3.waitDurationSeconds < MIN_PHASE_DURATION_SECONDS
               \/ c3.waitDurationSeconds > MAX_PHASE_DURATION_SECONDS
              THEN [c3 EXCEPT !.waitDurationSeconds = DEFAULT_WAIT_DURATION_SECONDS] ELSE c3
      c5 == IF FLt(c4.timerStopTempC, TIMER_TEMP_MIN_C) \/ FGt(c4.timerStopTempC, TIMER_TEMP_MAX_C)
              THEN [c4 EXCEPT !.timerStopTempC = DEFAULT_TIMER_STOP_TEMP_C] ELSE c4
      c6 == IF FLt(c5.timerResumeTempC, TIMER_TEMP_MIN_C) \/ FGt(c5.timerResumeTempC, TIMER_TEMP_MAX_C)
              THEN [c5 EXCEPT !.timerResumeTempC = DEFAULT_TIMER_RESUME_TEMP_C] ELSE c5
  IN IF FGe(c6.timerStopTempC, c6.timerResumeTempC)
       THEN [c6 EXCEPT !.timerStopTempC = DEFAULT_TIMER_STOP_TEMP_C,
                       !.timerResumeTempC = DEFAULT_TIMER_RESUME_TEMP_C]
       ELSE c6

saveConfig(s) ==
  LET s1 == [s EXCEPT !.deviceConfig.version = CONFIG_VERSION]
  IN [s1 EXCEPT !.eeprom = s1.deviceConfig]

\* only the Freeze entry of the table is rewritten
syncPhaseDurationsFromConfig_freeze(s) ==
  [s EXCEPT !.PHASES[0].durationSeconds = ToInt16(s.deviceConfig.freezeDurationSeconds)]

syncPhaseDurationsFromConfig(s) ==
  [s EXCEPT !.PHASES[0].durationSeconds = ToInt16(s.deviceConfig.freezeDurationSeconds),
            !.PHASES[1].durationSeconds = ToInt16(s.deviceConfig.waitDurationSeconds)]

\* the defaults are taken but not written to the EEPROM
loadConfig_nosave(s) ==
  LET s1 == [s EXCEPT !.deviceConfig = s.eeprom]
      s2 == IF s1.deviceConfig.version # CONFIG_VERSION
              THEN [s1 EXCEPT !.deviceConfig = makeDefaultConfig]
              ELSE [s1 EXCEPT !.deviceConfig = applyConfigBounds(s1.deviceConfig)]
  IN syncPhaseDurationsFromConfig(s2)

loadConfig(s) ==
  LET s1 == [s EXCEPT !.deviceConfig = s.eeprom]      \* EEPROM.get
      s2 == IF s1.deviceConfig.version # CONFIG_VERSION
              THEN saveConfig([s1 EXCEPT !.deviceConfig = makeDefaultConfig])
              ELSE [s1 EXCEPT !.deviceConfig = applyConfigBounds(s1.deviceConfig)]
  IN syncPhaseDurationsFromConfig(s2)

(***************************************************************************)
(* Thermostat.                                                             *)
(***************************************************************************)
\* the latch follows the target without a hysteresis band
updateThermostatControl_noband(s) ==
  IF s.deviceConfig.mode # OPERATION_MODE_THERMOSTAT THEN s
  ELSE IF ~s.temperatureSensorAvailable
    THEN updateRelayOutput([s EXCEPT !.thermostatCoolingDemand = FALSE,
                                     !.desiredRelayState = FALSE])
  ELSE
    LET demand == FGe(s.currentTemperatureC, s.deviceConfig.thermostatTargetC)
    IN updateRelayOutput([s EXCEPT !.thermostatCoolingDemand = demand,
                                   !.desiredRelayState = demand])

\* the bounds of the band are exclusive
updateThermostatControl_strict(s) ==
  IF s.deviceConfig.mode # OPERATION_MODE_THERMOSTAT THEN s
  ELSE IF ~s.temperatureSensorAvailable
    THEN updateRelayOutput([s EXCEPT !.thermostatCoolingDemand = FALSE,
                                     !.desiredRelayState = FALSE])
  ELSE
    LET upperBound == FAdd(s.deviceConfig.thermostatTargetC, THERMOSTAT_HYSTERESIS_C)
        lowerBound == FAdd(s.deviceConfig.thermostatTargetC, -THERMOSTAT_HYSTERESIS_C)
        demand == IF ~s.thermostatCoolingDemand /\ FGt(s.currentTemperatureC, upperBound)
                    THEN TRUE
                  ELSE IF s.thermostatCoolingDemand /\ FLt(s.currentTemperatureC, lowerBound)
                    THEN FALSE
                  ELSE s.thermostatCoolingDemand
    IN updateRelayOutput([s EXCEPT !.thermostatCoolingDemand = demand,
                                   !.desiredRelayState = demand])

\* a lost sensor leaves the latch as it was
updateThermostatControl_keep(s) ==
  IF s.deviceConfig.mode # OPERATION_MODE_THERMOSTAT THEN s
  ELSE IF ~s.temperatureSensorAvailable
    THEN updateRelayOutput([s EXCEPT !.desiredRelayState = s.thermostatCoolingDemand])
  ELSE
    LET upperBound == FAdd(s.deviceConfig.thermostatTargetC, THERMOSTAT_HYSTERESIS_C)
        lowerBound == FAdd(s.deviceConfig.thermostatTargetC, -THERMOSTAT_HYSTERESIS_C)
        demand == IF ~s.thermostatCoolingDemand /\ FGe(s.currentTemperatureC, upperBound)
                    THEN TRUE
                  ELSE IF s.thermostatCoolingDemand /\ FLe(s.currentTemperatureC, lowerBound)
                    THEN FALSE
                  ELSE s.thermostatCoolingDemand
    IN updateRelayOutput([s EXCEPT !.thermostatCoolingDemand = demand,
                                   !.desiredRelayState = demand])

updateThermostatControl(s0) ==
  LET s == emit(s0, "call", "updateThermostatControl", TRUE) IN
  IF s.deviceConfig.mode # OPERATION_MODE_THERMOSTAT THEN s
  ELSE IF ~s.temperatureSensorAvailable
    THEN updateRelayOutput([s EXCEPT !.thermostatCoolingDemand = FALSE,
                                     !.desiredRelayState = FALSE])
  ELSE
    LET upperBound == FAdd(s.deviceConfig.thermostatTargetC, THERMOSTAT_HYSTERESIS_C)
        lowerBound == FAdd(s.deviceConfig.thermostatTargetC, -THERMOSTAT_HYSTERESIS_C)
        demand == IF ~s.thermostatCoolingDemand /\ FGe(s.currentTemperatureC, upperBound)
                    THEN TRUE
                  ELSE IF s.thermostatCoolingDemand /\ FLe(s.currentTemperatureC, lowerBound)
                    THEN FALSE
                  ELSE s.thermostatCoolingDemand
    IN updateRelayOutput([s EXCEPT !.thermostatCoolingDemand = demand,
                                   !.desiredRelayState = demand])

(***************************************************************************)
(* Operating mode and the configuration setters.                           *)
(***************************************************************************)
applyOperationMode(s, modeValue) ==
  LET mode == IF modeValue = OPERATION_MODE_THERMOSTAT
                THEN OPERATION_MODE_THERMOSTAT ELSE OPERATION_MODE_TIMER
      s1 == [s EXCEPT !.deviceConfig.mode = mode]
  IN IF mode = OPERATION_MODE_TIMER
       THEN LET s2 == syncPhaseDurationsFromConfig(s1)
                s3 == [s2 EXCEPT !.timerCoolingPauseActive = FALSE,
                                 !.currentPhaseIndex = 0]
            IN activatePhase(s3, s3.currentPhaseIndex)
       ELSE LET s2 == [s1 EXCEPT !.elapsedSeconds = 0,
                                 !.thermostatCoolingDemand = FALSE,
                                 !.desiredRelayState = FALSE,
                                 !.timerCoolingPauseActive = FALSE]
                s3 == requestDisplayRefresh(relayDisconnect(s2))
            IN interrupts(setFlag(noInterrupts(s3), "thermostatControlRequested"))

\* the record is written also when the mode is the one in force
setOperationMode_resave(s, mode) ==
  applyOperationMode(saveConfig([s EXCEPT !.deviceConfig.mode = mode]), mode)

setOperationMode(s, mode) ==
  IF s.deviceConfig.mode = mode
    THEN applyOperationMode(s, mode)
    ELSE applyOperationMode(saveConfig([s EXCEPT !.deviceConfig.mode = mode]), mode)

\* a target outside the range is refused
setThermostatTarget_reject(s, targetC0) ==
  IF FLt(targetC0, THERMOSTAT_MIN_TARGET_C) \/ FGt(targetC0, THERMOSTAT_MAX_TARGET_C)
    THEN s
    ELSE LET s1 == saveConfig([s EXCEPT !.deviceConfig.thermostatTargetC = targetC0])
             s2 == IF s1.deviceConfig.mode = OPERATION_MODE_THERMOSTAT
                     THEN updateThermostatControl(s1) ELSE s1
         IN requestDisplayRefresh(s2)

setThermostatTarget(s, targetC0) ==
  LET targetC == IF FLt(targetC0, THERMOSTAT_MIN_TARGET_C) THEN THERMOSTAT_MIN_TARGET_C
                 ELSE IF FGt(targetC0, THERMOSTAT_MAX_TARGET_C) THEN THERMOSTAT_MAX_TARGET_C
                 ELSE targetC0
      s1 == saveConfig([s EXCEPT !.deviceConfig.thermostatTargetC = targetC])
      s2 == IF s1.deviceConfig.mode = OPERATION_MODE_THERMOSTAT
              THEN updateThermostatControl(s1) ELSE s1
  IN requestDisplayRefresh(s2)

\* the new duration is not written to the EEPROM
setFreezeDurationSeconds_unsaved(s, seconds0) ==
  LET seconds == IF seconds0 < MIN_PHASE_DURATION_SECONDS THEN MIN_PHASE_DURATION_SECONDS
                 ELSE IF seconds0 > MAX_PHASE_DURATION_SECONDS THEN MAX_PHASE_DURATION_SECONDS
                 ELSE seconds0
      s1 == [s EXCEPT !.deviceConfig.freezeDurationSeconds = seconds]
      s2 == syncPhaseDurationsFromConfig(s1)
      s3 == IF s2.deviceConfig.mode = OPERATION_MODE_TIMER /\ s2.currentPhaseIndex = 0
               /\ s2.elapsedSeconds > s2.PHASES[0].durationSeconds
              THEN [s2 EXCEPT !.elapsedSeconds = s2.PHASES[0].durationSeconds] ELSE s2
  IN requestDisplayRefresh(s3)

setFreezeDurationSeconds(s, seconds0) ==
  LET seconds == IF seconds0 < MIN_PHASE_DURATION_SECONDS THEN MIN_PHASE_DURATION_SECONDS
                 ELSE IF seconds0 > MAX_PHASE_DURATION_SECONDS THEN MAX_PHASE_DURATION_SECONDS
                 ELSE seconds0
      s1 == saveConfig([s EXCEPT !.deviceConfig.freezeDurationSeconds = seconds])
      s2 == syncPhaseDurationsFromConfig(s1)
      s3 == IF s2.deviceConfig.mode = OPERATION_MODE_TIMER /\ s2.currentPhaseIndex = 0
               /\ s2.elapsedSeconds > s2.PHASES[0].durationSeconds
              THEN [s2 EXCEPT !.elapsedSeconds = s2.PHASES[0].durationSeconds] ELSE s2
  IN requestDisplayRefresh(s3)

\* the elapsed count is left above a shortened Rest duration
setWaitDurationSeconds_noclamp(s, seconds0) ==
  LET seconds == IF seconds0 < MIN_PHASE_DURATION_SECONDS THEN MIN_PHASE_DURATION_SECONDS
                 ELSE IF seconds0 > MAX_PHASE_DURATION_SECONDS THEN MAX_PHASE_DURATION_SECONDS
                 ELSE seconds0
      s1 == saveConfig([s EXCEPT !.deviceConfig.waitDurationSeconds = seconds])
  IN requestDisplayRefresh(syncPhaseDurationsFromConfig(s1))

setWaitDurationSeconds(s, seconds0) ==
  LET seconds == IF seconds0 < MIN_PHASE_DURATION_SECONDS THEN MIN_PHASE_DURATION_SECONDS
                 ELSE IF seconds0 > MAX_PHASE_DURATION_SECONDS THEN MAX_PHASE_DURATION_SECONDS
                 ELSE seconds0
      s1 == saveConfig([s EXCEPT !.deviceConfig.waitDurationSeconds = seconds])
      s2 == syncPhaseDurationsFromConfig(s1)
      s3 == IF s2.deviceConfig.mode = OPERATION_MODE_TIMER /\ s2.currentPhaseIndex = 1
               /\ s2.elapsedSeconds > s2.PHASES[1].durationSeconds
              THEN [s2 EXCEPT !.elapsedSeconds = s2.PHASES[1].durationSeconds] ELSE s2
  IN requestDisplayRefresh(s3)

\* the four clamps of setTimerTempRange, applied to one argument
clampTimerTemp(t) ==
  LET t1 == IF FLt(t, TIMER_TEMP_MIN_C) THEN TIMER_TEMP_MIN_C ELSE t
  IN IF FGt(t1, TIMER_TEMP_MAX_C) THEN TIMER_TEMP_MAX_C ELSE t1

setTimerTempRange(s, stopTempC0, resumeTempC0) ==
  LET stopTempC == clampTimerTemp(stopTempC0)
      resumeTempC == clampTimerTemp(resumeTempC0)
  IN IF FGe(stopTempC, resumeTempC) THEN s
     ELSE requestDisplayRefresh(updateRelayOutput(saveConfig(
            [s EXCEPT !.deviceConfig.timerStopTempC = stopTempC,
                      !.deviceConfig.timerResumeTempC = resumeTempC])))

(***************************************************************************)
(* Sensors.                                                                *)
(***************************************************************************)
\* pinHigh: digitalRead(DOOR_SENSOR_PIN) == HIGH
updateDoorSensor(s0, pinHigh) ==
  LET s == emit(s0, "call", "updateDoorSensor", TRUE) IN
  LET s1 == [s EXCEPT !.doorSensorAvailable = TRUE, !.doorOpen = pinHigh]
  IN IF ~s.doorSensorAvailable \/ s.doorOpen # s1.doorOpen
       THEN requestDisplayRefresh(s1) ELSE s1

scheduleTemperatureMeasurement(s) == [s EXCEPT !.temperatureConversionPending = TRUE]

\* intervalElapsed: millis() - lastTemperatureRequestMillis >= TEMPERATURE_CONVERSION_INTERVAL_MS
\* temperature:     the value returned by getTempCByIndex(0)
updateTemperature(s0, intervalElapsed, temperature) ==
  LET s == emit(s0, "call", "updateTemperature", TRUE) IN
  IF ~s.temperatureConversionPending THEN scheduleTemperatureMeasurement(s)
  ELSE IF ~intervalElapsed THEN s
  ELSE
    LET s1 == IF FGt(temperature, DEVICE_DISCONNECTED_C)
                THEN [s EXCEPT !.currentTemperatureC = temperature,
                               !.temperatureSensorAvailable = TRUE]
                ELSE [s EXCEPT !.temperatureSensorAvailable = FALSE]
        s2 == [s1 EXCEPT !.temperatureConversionPending = FALSE]
        s3 == updateRelayOutput(scheduleTemperatureMeasurement(s2))
    IN IF s.temperatureSensorAvailable # s3.temperatureSensorAvailable
          \/ (s3.temperatureSensorAvailable
              /\ FNe(s3.currentTemperatureC, s.currentTemperatureC))
         THEN requestDisplayRefresh(s3) ELSE s3

(***************************************************************************)
(* Encoder sampling.                                                       *)
(***************************************************************************)
\* pinA, pinB: digitalRead of the two channels (TRUE = HIGH)
\* buttonPressed: digitalRead(ENCODER_BUTTON_PIN) == LOW
\* an accepted press sets the click flag as well
updateEncoderInput_press(s0, pinA, pinB, buttonPressed) ==
  LET s == emit(s0, "call", "updateEncoderInput", TRUE) IN
  LET e == s.encoderState
      delta == IF pinA # e.pinALast /\ pinA
                 THEN (IF pinB THEN s.encoderPendingDelta + 1 ELSE s.encoderPendingDelta - 1)
                 ELSE s.encoderPendingDelta
      e1 == IF pinA # e.pinALast
              THEN [e EXCEPT !.pinALast = pinA, !.pinBLast = pinB] ELSE e
      e2 == IF buttonPressed = e1.buttonLastSample
              THEN (IF e1.buttonStableCounter < 5
                      THEN [e1 EXCEPT !.buttonStableCounter = @ + 1] ELSE e1)
              ELSE [e1 EXCEPT !.buttonStableCounter = 0, !.buttonLastSample = buttonPressed]
      accept == e2.buttonStableCounter >= 3 /\ buttonPressed # e2.buttonStableState
      e3 == IF accept THEN [e2 EXCEPT !.buttonStableState = buttonPressed] ELSE e2
  IN [s EXCEPT !.encoderPendingDelta = ToInt16(delta),
               !.encoderState = e3,
               !.encoderButtonClicked = IF accept THEN TRUE ELSE @]

updateEncoderInput(s0, pinA, pinB, buttonPressed) ==
  LET s == emit(s0, "call", "updateEncoderInput", TRUE) IN
  LET e == s.encoderState
      delta == IF pinA # e.pinALast /\ pinA
                 THEN (IF pinB THEN s.encoderPendingDelta + 1 ELSE s.encoderPendingDelta - 1)
                 ELSE s.encoderPendingDelta
      e1 == IF pinA # e.pinALast
              THEN [e EXCEPT !.pinALast = pinA, !.pinBLast = pinB] ELSE e
      e2 == IF buttonPressed = e1.buttonLastSample
              THEN (IF e1.buttonStableCounter < 5
                      THEN [e1 EXCEPT !.buttonStableCounter = @ + 1] ELSE e1)
              ELSE [e1 EXCEPT !.buttonStableCounter = 0, !.buttonLastSample = buttonPressed]
      accept == e2.buttonStableCounter >= 3 /\ buttonPressed # e2.buttonStableState
      e3 == IF accept THEN [e2 EXCEPT !.buttonStableState = buttonPressed] ELSE e2
  IN [s EXCEPT !.encoderPendingDelta = ToInt16(delta),
               !.encoderState = e3,
               !.encoderButtonClicked = IF accept /\ ~buttonPressed THEN TRUE ELSE @]

\* the pending delta is returned and kept
consumeEncoderDelta_keep(s) ==
  [delta |-> s.encoderPendingDelta, st |-> s]

\* int16_t consumeEncoderDelta(): returned value and state after the call
consumeEncoderDelta(s) ==
  [delta |-> s.encoderPendingDelta, st |-> [s EXCEPT !.encoderPendingDelta = 0]]

consumeEncoderButtonClick(s) ==
  [clicked |-> s.encoderButtonClicked, st |-> [s EXCEPT !.encoderButtonClicked = FALSE]]

(***************************************************************************)
(* Menu.                                                                   *)
(***************************************************************************)
enterMenuSelection(s) ==
  IF s.uiState # UI_STATE_IDLE THEN s
  ELSE requestDisplayRefresh([s EXCEPT !.uiState = UI_STATE_MENU_SELECT,
                                       !.menuSelectionIndex = 0])

exitMenu(s) == requestDisplayRefresh([s EXCEPT !.uiState = UI_STATE_IDLE])

\* the editor is entered with the draft left from the edit before
startEditingCurrentItem_stale(s) ==
  LET type == MENU_ITEMS[s.menuSelectionIndex]
      s1 == [s EXCEPT !.editState.itemType = type]
  IN IF type # MENU_ITEM_EXIT
       THEN requestDisplayRefresh([s1 EXCEPT !.uiState = UI_STATE_EDIT_VALUE])
       ELSE s1

startEditingCurrentItem(s) ==
  LET type == MENU_ITEMS[s.menuSelectionIndex]
      c == s.deviceConfig
      e0 == [s.editState EXCEPT !.itemType = type]
      e1 == CASE type = MENU_ITEM_MODE -> [e0 EXCEPT !.modeValue = c.mode]
              [] type = MENU_ITEM_FREEZE_DURATION -> [e0 EXCEPT !.secondsValue = c.freezeDurationSeconds]
              [] type = MENU_ITEM_WAIT_DURATION -> [e0 EXCEPT !.secondsValue = c.waitDurationSeconds]
              [] type = MENU_ITEM_STOP_TEMP -> [e0 EXCEPT !.floatValue = c.timerStopTempC]
              [] type = MENU_ITEM_RESUME_TEMP -> [e0 EXCEPT !.floatValue = c.timerResumeTempC]
              [] type = MENU_ITEM_THERMOSTAT_TARGET -> [e0 EXCEPT !.floatValue = c.thermostatTargetC]
              [] OTHER -> e0
      s1 == [s EXCEPT !.editState = e1]
  IN IF type # MENU_ITEM_EXIT
       THEN requestDisplayRefresh([s1 EXCEPT !.uiState = UI_STATE_EDIT_VALUE])
       ELSE s1

\* the draft after adjustEditValue(delta), delta # 0
adjustedEditState(s, delta) ==
  LET e == s.editState
      type == e.itemType
  IN CASE type = MENU_ITEM_MODE ->
            LET value == e.modeValue + delta
                v1 == IF value < 0 THEN 0 ELSE value
                v2 == IF v1 > 1 THEN 1 ELSE v1
                nextMode == IF v2 = 0 THEN OPERATION_MODE_TIMER ELSE OPERATION_MODE_THERMOSTAT
            IN IF nextMode # e.modeValue THEN [e EXCEPT !.modeValue = nextMode] ELSE e
       [] type \in {MENU_ITEM_FREEZE_DURATION, MENU_ITEM_WAIT_DURATION} ->
            LET updated == e.secondsValue + delta * EDIT_STEP_SECONDS
                u1 == IF updated < MIN_PHASE_DURATION_SECONDS THEN MIN_PHASE_DURATION_SECONDS ELSE updated
                u2 == IF u1 > MAX_PHASE_DURATION_SECONDS THEN MAX_PHASE_DURATION_SECONDS ELSE u1
            IN IF u2 # e.secondsValue THEN [e EXCEPT !.secondsValue = u2] ELSE e
       [] type = MENU_ITEM_STOP_TEMP ->
            LET updated == FAdd(e.floatValue, delta * EDIT_STEP_C)
                m0 == FAdd(s.deviceConfig.timerResumeTempC, -EDIT_STEP_C)
                maxAllowed == IF FLt(m0, TIMER_TEMP_MIN_C) THEN TIMER_TEMP_MIN_C ELSE m0
                u1 == IF FGt(updated, maxAllowed) THEN maxAllowed ELSE updated
                u2 == IF FLt(u1, TIMER_TEMP_MIN_C) THEN TIMER_TEMP_MIN_C ELSE u1
                u3 == IF FGt(u2, TIMER_TEMP_MAX_C) THEN TIMER_TEMP_MAX_C ELSE u2
            IN IF FNe(u3, e.floatValue) THEN [e EXCEPT !.floatValue = u3] ELSE e
       [] type = MENU_ITEM_RESUME_TEMP ->
            LET updated == FAdd(e.floatValue, delta * EDIT_STEP_C)
                minAllowed == FAdd(s.deviceConfig.timerStopTempC, EDIT_STEP_C)
                u1 == IF FLt(updated, minAllowed) THEN minAllowed ELSE updated
                u2 == IF FLt(u1, TIMER_TEMP_MIN_C) THEN TIMER_TEMP_MIN_C ELSE u1
                u3 == IF FGt(u2, TIMER_TEMP_MAX_C) THEN TIMER_TEMP_MAX_C ELSE u2
            IN IF FNe(u3, e.floatValue) THEN [e EXCEPT !.floatValue = u3] ELSE e
       [] type = MENU_ITEM_THERMOSTAT_TARGET ->
            LET updated == FAdd(e.floatValue, delta * EDIT_STEP_C)
                u1 == IF FLt(updated, THERMOSTAT_MIN_TARGET_C) THEN THERMOSTAT_MIN_TARGET_C ELSE updated
                u2 == IF FGt(u1, THERMOSTAT_MAX_TARGET_C) THEN THERMOSTAT_MAX_TARGET_C ELSE u1
            IN IF FNe(u2, e.floatValue) THEN [e EXCEPT !.floatValue = u2] ELSE e
       [] OTHER -> e

adjustEditValue(s, delta) ==
  IF delta = 0 THEN s
  ELSE LET e1 == adjustedEditState(s, delta)
           \* changed: the draft field was assigned (NaN never compares equal)
           changed == e1 # s.editState
                      \/ (s.editState.itemType \in {MENU_ITEM_STOP_TEMP, MENU_ITEM_RESUME_TEMP,
                                                    MENU_ITEM_THERMOSTAT_TARGET}
                          /\ e1.floatValue = NaN)
           s1 == [s EXCEPT !.editState = e1]
       IN IF changed THEN requestDisplayRefresh(s1) ELSE s1

\* the editor is left without the draft being handed to a setter
commitEditValue_nostore(s) ==
  requestDisplayRefresh([s EXCEPT !.uiState = UI_STATE_MENU_SELECT])

commitEditValue(s) ==
  LET e == s.editState
      type == e.itemType
      s1 == CASE type = MENU_ITEM_MODE -> setOperationMode(s, e.modeValue)
              [] type = MENU_ITEM_FREEZE_DURATION -> setFreezeDurationSeconds(s, e.secondsValue)
              [] type = MENU_ITEM_WAIT_DURATION -> setWaitDurationSeconds(s, e.secondsValue)
              [] type = MENU_ITEM_STOP_TEMP ->
                   setTimerTempRange(s, e.floatValue, s.deviceConfig.timerResumeTempC)
              [] type = MENU_ITEM_RESUME_TEMP ->
                   setTimerTempRange(s, s.deviceConfig.timerStopTempC, e.floatValue)
              [] type = MENU_ITEM_THERMOSTAT_TARGET -> setThermostatTarget(s, e.floatValue)
              [] OTHER -> s
  IN requestDisplayRefresh([s1 EXCEPT !.uiState = UI_STATE_MENU_SELECT])

\* going below zero lands one position short
wrapMenuIndex_short(index) ==
  IF index < 0 THEN index + MENU_ITEM_COUNT - 1
  ELSE IF index >= MENU_ITEM_COUNT THEN index - MENU_ITEM_COUNT
  ELSE index

\* the selection index after "index += delta" and the two while loops
RECURSIVE wrapMenuIndex(_)
wrapMenuIndex(index) ==
  IF index < 0 THEN wrapMenuIndex(index + MENU_ITEM_COUNT)
  ELSE IF index >= MENU_ITEM_COUNT THEN wrapMenuIndex(index - MENU_ITEM_COUNT)
  ELSE index

\* the click that opens the menu is kept
processEncoderInterface_keepclick(s) ==
  LET cd == consumeEncoderDelta(s)
      cc == consumeEncoderButtonClick(cd.st)
      delta == cd.delta
      s0 == cc.st
  IN IF delta = 0 /\ ~cc.clicked THEN s0
     ELSE
       LET s1 == IF s0.uiState = UI_STATE_IDLE THEN enterMenuSelection(s0) ELSE s0
           click == cc.clicked
       IN IF s1.uiState = UI_STATE_MENU_SELECT
            THEN LET index == wrapMenuIndex(ToInt16(s1.menuSelectionIndex + delta))
                     s2 == IF delta # 0 /\ s1.menuSelectionIndex # index
                             THEN requestDisplayRefresh([s1 EXCEPT !.menuSelectionIndex = index])
                             ELSE s1
                 IN IF click
                      THEN (IF MENU_ITEMS[s2.menuSelectionIndex] = MENU_ITEM_EXIT
                              THEN exitMenu(s2) ELSE startEditingCurrentItem(s2))
                      ELSE s2
          ELSE IF s1.uiState = UI_STATE_EDIT_VALUE
            THEN LET s2 == IF delta # 0 THEN adjustEditValue(s1, delta) ELSE s1
                 IN IF click THEN commitEditValue(s2) ELSE s2
          ELSE s1

processEncoderInterface(s) ==
  LET cd == consumeEncoderDelta(s)
      cc == consumeEncoderButtonClick(cd.st)
      delta == cd.delta
      s0 == cc.st
  IN IF delta = 0 /\ ~cc.clicked THEN s0
     ELSE
       LET wasIdle == s0.uiState = UI_STATE_IDLE
           s1 == IF wasIdle THEN enterMenuSelection(s0) ELSE s0
           click == IF wasIdle THEN FALSE ELSE cc.clicked
       IN IF s1.uiState = UI_STATE_MENU_SELECT
            THEN LET index == wrapMenuIndex(ToInt16(s1.menuSelectionIndex + delta))
                     s2 == IF delta # 0 /\ s1.menuSelectionIndex # index
                             THEN requestDisplayRefresh([s1 EXCEPT !.menuSelectionIndex = index])
                             ELSE s1
                 IN IF click
                      THEN (IF MENU_ITEMS[s2.menuSelectionIndex] = MENU_ITEM_EXIT
                              THEN exitMenu(s2) ELSE startEditingCurrentItem(s2))
                      ELSE s2
          ELSE IF s1.uiState = UI_STATE_EDIT_VALUE
            THEN LET s2 == IF delta # 0 THEN adjustEditValue(s1, delta) ELSE s1
                 IN IF click THEN commitEditValue(s2) ELSE s2
          ELSE s1

(***************************************************************************)
(* Serial commands.  A received line is the record of its words:           *)
(* line.command is the first word ("" when no line is available),          *)
(* line.keyword the sub-command of frost/freeze/wait/rest, and line.args   *)
(* the sequence of argument words that follow.                             *)
(***************************************************************************)
\* the decimal numerals that the lines carry, with their value in tenths
DecimalText ==
  ("-41" :> -410) @@ ("-40" :> -400) @@ ("-31" :> -310) @@ ("-18" :> -180) @@
  ("-15" :> -150) @@ ("-12.5" :> -125) @@ ("5.1" :> 51) @@ ("15.5" :> 155) @@
  ("0.4" :> 4) @@ ("1" :> 10) @@ ("361" :> 3610)

\* strtod: a decimal numeral is converted, and so is the word "nan"; of
\* any other word nothing is converted
strtod(word) ==
  IF word \in DOMAIN DecimalText THEN [converted |-> TRUE, value |-> DecimalText[word]]
  ELSE IF word = "nan" THEN [converted |-> TRUE, value |-> NaN]
  ELSE [converted |-> FALSE, value |-> 0]

parseFloatArgument(args) ==
  IF Len(args) = 0 THEN [ok |-> FALSE, value |-> 0]
  ELSE LET r == strtod(args[1])
       IN IF ~r.converted THEN [ok |-> FALSE, value |-> r.value]
          ELSE [ok |-> Len(args) = 1, value |-> r.value]

parseFloatPair(args) ==
  IF Len(args) = 0 THEN [ok |-> FALSE, first |-> 0, second |-> 0]
  ELSE LET r1 == strtod(args[1])
       IN IF ~r1.converted \/ Len(args) = 1
            THEN [ok |-> FALSE, first |-> r1.value, second |-> 0]
            ELSE LET r2 == strtod(args[2])
                 IN IF ~r2.converted THEN [ok |-> FALSE, first |-> r1.value, second |-> r2.value]
                    ELSE [ok |-> Len(args) = 2, first |-> r1.value, second |-> r2.value]

\* the words of the form mm:ss that the lines carry, as <<minutes, seconds>>
ColonText ==
  ("0:29" :> <<0, 29>>) @@ ("0:30" :> <<0, 30>>) @@ ("360:01" :> <<360, 1>>) @@
  ("-1:00" :> <<-1, 0>>)

\* a word without a colon is a number of minutes (value in tenths); NaN
\* minutes are not modelled
parseDurationArgument(args) ==
  IF Len(args) = 0 THEN [ok |-> FALSE, seconds |-> 0]
  ELSE IF args[1] \in DOMAIN ColonText
    THEN LET minutes == ColonText[args[1]][1]
             secs == ColonText[args[1]][2]
         IN IF Len(args) # 1 \/ minutes < 0 \/ secs < 0 THEN [ok |-> FALSE, seconds |-> 0]
            ELSE [ok |-> TRUE, seconds |-> minutes * 60 + secs]
    ELSE LET r == strtod(args[1])
         IN IF ~r.converted \/ Len(args) # 1 \/ r.value = NaN \/ r.value < 0
              THEN [ok |-> FALSE, seconds |-> 0]
              ELSE [ok |-> TRUE, seconds |-> (r.value * 60 + 5) \div 10]

handleFrostCommand(s, line) ==
  IF line.keyword = "time"
    THEN LET p == parseDurationArgument(line.args)
         IN IF p.ok THEN setFreezeDurationSeconds(s, p.seconds) ELSE s
  ELSE IF line.keyword = "temp"
    THEN LET p == parseFloatPair(line.args)
         IN IF p.ok THEN setTimerTempRange(s, p.first, p.second) ELSE s
  ELSE s

handleWaitCommand(s, line) ==
  IF line.keyword = "time"
    THEN LET p == parseDurationArgument(line.args)
         IN IF p.ok THEN setWaitDurationSeconds(s, p.seconds) ELSE s
  ELSE s

handleSerialCommands(s, line) ==
  CASE line.command = "mode" ->
         IF line.args = <<"timer">> THEN setOperationMode(s, OPERATION_MODE_TIMER)
         ELSE IF line.args \in {<<"thermo">>, <<"sensor">>}
           THEN setOperationMode(s, OPERATION_MODE_THERMOSTAT)
         ELSE s
    [] line.command = "temp" ->
         LET p == parseFloatArgument(line.args)
         IN IF p.ok THEN setThermostatTarget(s, p.value) ELSE s
    [] line.command \in {"frost", "freeze"} -> handleFrostCommand(s, line)
    [] line.command \in {"wait", "rest"} -> handleWaitCommand(s, line)
    [] OTHER -> s

(***************************************************************************)
(* Tick interrupt.                                                         *)
(***************************************************************************)
TickFlags == {"displayUpdateRequested", "doorSampleRequested",
              "temperatureUpdateRequested", "timerSecondTickRequested",
              "thermostatControlRequested", "encoderSampleRequested"}

\* the period compared with the counter that raises each flag
IntervalOf(flag) ==
  CASE flag = "displayUpdateRequested" -> DISPLAY_REFRESH_INTERVAL_MS
    [] flag = "doorSampleRequested" -> DOOR_SAMPLE_INTERVAL_MS
    [] flag = "temperatureUpdateRequested" -> TEMPERATURE_POLL_INTERVAL_MS
    [] flag = "timerSecondTickRequested" -> TIMER_SECOND_INTERVAL_MS
    [] flag = "thermostatControlRequested" -> THERMOSTAT_CONTROL_INTERVAL_MS
    [] flag = "encoderSampleRequested" -> ENCODER_SAMPLE_INTERVAL_MS

\* one execution of ISR(TIMER1_COMPA_vect) from counters c: the flags it sets
ISRRaised(c) == {f \in TickFlags : c[f] + 1 >= IntervalOf(f)}

\* a counter is cleared one tick after it reaches its period
ISRCounters_late(c) == [f \in TickFlags |-> IF c[f] + 1 > IntervalOf(f) THEN 0 ELSE c[f] + 1]

\* ... and the counters it leaves
ISRCounters(c) == [f \in TickFlags |-> IF c[f] + 1 >= IntervalOf(f) THEN 0 ELSE c[f] + 1]

\* the flags in F are set, the others keep their value
raiseFlags(s, F) ==
  [s EXCEPT !.displayUpdateRequested = @ \/ "displayUpdateRequested" \in F,
            !.doorSampleRequested = @ \/ "doorSampleRequested" \in F,
            !.temperatureUpdateRequested = @ \/ "temperatureUpdateRequested" \in F,
            !.timerSecondTickRequested = @ \/ "timerSecondTickRequested" \in F,
            !.thermostatControlRequested = @ \/ "thermostatControlRequested" \in F,
            !.encoderSampleRequested = @ \/ "encoderSampleRequested" \in F]

\* The six counters start at 0 and are incremented together, so after t
\* interrupts counter f holds t % IntervalOf(f); the longest period is a
\* multiple of all the others.
ISRCounterStates ==
  {[f \in TickFlags |-> t % IntervalOf(f)] : t \in 0..(TIMER_SECOND_INTERVAL_MS - 1)}

\* the sets of flags that one interrupt can raise
ISRRaisable == {ISRRaised(c) : c \in ISRCounterStates} \ {{}}

(***************************************************************************)
(* setup() and the lines of loop().                                        *)
(***************************************************************************)
initPins(s) == [emit(s, "digitalWrite", "RELAY_PIN", FALSE) EXCEPT !.relayPin = FALSE]

initEncoderInput(s, pinA, pinB, buttonPressed) ==
  [s EXCEPT !.encoderState = [pinALast |-> pinA, pinBLast |-> pinB,
                              buttonLastSample |-> buttonPressed,
                              buttonStableState |-> buttonPressed,
                              buttonStableCounter |-> 0],
            !.encoderPendingDelta = 0,
            !.encoderButtonClicked = FALSE]

initTemperatureSensor(s) == scheduleTemperatureMeasurement(s)

\* the part of setup() that follows loadConfig()
setupAfterLoad(s, pinA, pinB, buttonPressed) ==
  LET s1 == initEncoderInput(initPins(s), pinA, pinB, buttonPressed)
      s2 == requestSchedulerKickstart(initTemperatureSensor(s1))
  IN applyOperationMode(s2, s2.deviceConfig.mode)

setup(s, pinA, pinB, buttonPressed) ==
  setupAfterLoad(loadConfig(emit(s, "call", "setup", TRUE)), pinA, pinB, buttonPressed)

\* the globals as initialised at their definition, with record stored in EEPROM
PowerOn(stored) ==
  [relayState |-> FALSE, desiredRelayState |-> FALSE,
   currentPhaseIndex |-> 0, elapsedSeconds |-> 0,
   temperatureSensorAvailable |-> FALSE,
   temperatureConversionPending |-> FALSE,
   timerCoolingPauseActive |-> FALSE,
   currentTemperatureC |-> 0,
   deviceConfig |-> [version |-> 0, mode |-> 0, thermostatTargetC |-> 0,
                     freezeDurationSeconds |-> 0, waitDurationSeconds |-> 0,
                     timerStopTempC |-> 0, timerResumeTempC |-> 0],
   thermostatCoolingDemand |-> FALSE,
   doorSensorAvailable |-> FALSE, doorOpen |-> FALSE,
   uiState |-> UI_STATE_IDLE, menuSelectionIndex |-> 0,
   editState |-> [itemType |-> MENU_ITEM_MODE, modeValue |-> OPERATION_MODE_TIMER,
                  secondsValue |-> 0, floatValue |-> 0],
   encoderState |-> [pinALast |-> TRUE, pinBLast |-> TRUE,
                     buttonLastSample |-> TRUE, buttonStableState |-> TRUE,
                     buttonStableCounter |-> 0],
   encoderPendingDelta |-> 0, encoderButtonClicked |-> FALSE,
   displayUpdateRequested |-> FALSE, temperatureUpdateRequested |-> FALSE,
   doorSampleRequested |-> FALSE, timerSecondTickRequested |-> FALSE,
   thermostatControlRequested |-> FALSE, encoderSampleRequested |-> FALSE,
   PHASES |-> [i \in 0..(PHASE_COUNT - 1) |->
                 IF i = 0 THEN [durationSeconds |-> ToInt16(DEFAULT_FREEZE_DURATION_SECONDS),
                                relayConnected |-> TRUE]
                          ELSE [durationSeconds |-> ToInt16(DEFAULT_WAIT_DURATION_SECONDS),
                                relayConnected |-> FALSE]],
   eeprom |-> stored,
   relayPin |-> FALSE,
   interruptsEnabled |-> TRUE,    \* enabled by the core before setup()
   trace |-> <<>>]

loopSerial(s, line) ==
  handleSerialCommands(emit(s, "call", "handleSerialCommands", TRUE), line)

\* the handler runs a second time
loopDoor_twice(s, pinHigh) ==
  LET c == consumeSchedulerFlag(s, "doorSampleRequested")
  IN IF c.pending THEN updateDoorSensor(updateDoorSensor(c.st, pinHigh), pinHigh) ELSE c.st

loopDoor(s, pinHigh) ==
  LET c == consumeSchedulerFlag(s, "doorSampleRequested")
  IN IF c.pending THEN updateDoorSensor(c.st, pinHigh) ELSE c.st

loopTemperature(s, intervalElapsed, temperature) ==
  LET c == consumeSchedulerFlag(s, "temperatureUpdateRequested")
  IN IF c.pending THEN updateTemperature(c.st, intervalElapsed, temperature) ELSE c.st

\* the operands of && exchanged: the flag is consumed only in timer mode
loopTimerSecondTick_gated(s) ==
  IF s.deviceConfig.mode = OPERATION_MODE_TIMER
    THEN handleTimerSecondTick(consumeSchedulerFlag(s, "timerSecondTickRequested").st)
    ELSE s

\* the tick is handled in either mode
loopTimerSecondTick_ungated(s) ==
  LET c == consumeSchedulerFlag(s, "timerSecondTickRequested")
  IN IF c.pending THEN handleTimerSecondTick(c.st) ELSE c.st

loopTimerSecondTick(s) ==
  LET c == consumeSchedulerFlag(s, "timerSecondTickRequested")
  IN IF c.pending /\ c.st.deviceConfig.mode = OPERATION_MODE_TIMER
       THEN handleTimerSecondTick(c.st) ELSE c.st

loopThermostatControl(s) ==
  LET c == consumeSchedulerFlag(s, "thermostatControlRequested")
  IN IF c.pending /\ c.st.deviceConfig.mode = OPERATION_MODE_THERMOSTAT
       THEN updateThermostatControl(c.st) ELSE c.st

loopEncoderSample(s, pinA, pinB, buttonPressed) ==
  LET c == consumeSchedulerFlag(s, "encoderSampleRequested")
  IN IF c.pending THEN updateEncoderInput(c.st, pinA, pinB, buttonPressed) ELSE c.st

\* refreshDisplay() only writes to the LCD
refreshDisplay(s) == emit(s, "call", "refreshDisplay", TRUE)

loopDisplay(s) ==
  LET c == consumeSchedulerFlag(s, "displayUpdateRequested")
  IN IF c.pending THEN refreshDisplay(c.st) ELSE c.st

\* a rotation does not open the menu: with the UI idle only a click is served
loopUi_idle(s) ==
  IF s.uiState = UI_STATE_IDLE /\ ~s.encoderButtonClicked
    THEN s
    ELSE processEncoderInterface(emit(s, "call", "processEncoderInterface", TRUE))

loopUi(s) == processEncoderInterface(emit(s, "call", "processEncoderInterface", TRUE))

(***************************************************************************)
(* Actions.                                                                *)
(***************************************************************************)
\* the globals hold the values of the record s
Is(s) ==
  /\ relayState = s.relayState
  /\ desiredRelayState = s.desiredRelayState
  /\ currentPhaseIndex = s.currentPhaseIndex
  /\ elapsedSeconds = s.elapsedSeconds
  /\ temperatureSensorAvailable = s.temperatureSensorAvailable
  /\ temperatureConversionPending = s.temperatureConversionPending
  /\ timerCoolingPauseActive = s.timerCoolingPauseActive
  /\ currentTemperatureC = s.currentTemperatureC
  /\ deviceConfig = s.deviceConfig
  /\ thermostatCoolingDemand = s.thermostatCoolingDemand
  /\ doorSensorAvailable = s.doorSensorAvailable
  /\ doorOpen = s.doorOpen
  /\ uiState = s.uiState
  /\ menuSelectionIndex = s.menuSelectionIndex
  /\ editState = s.editState
  /\ encoderState = s.encoderState
  /\ encoderPendingDelta = s.encoderPendingDelta
  /\ encoderButtonClicked = s.encoderButtonClicked
  /\ displayUpdateRequested = s.displayUpdateRequested
  /\ temperatureUpdateRequested = s.temperatureUpdateRequested
  /\ doorSampleRequested = s.doorSampleRequested
  /\ timerSecondTickRequested = s.timerSecondTickRequested
  /\ thermostatControlRequested = s.thermostatControlRequested
  /\ encoderSampleRequested = s.encoderSampleRequested
  /\ PHASES = s.PHASES
  /\ eeprom = s.eeprom
  /\ relayPin = s.relayPin
  /\ interruptsEnabled = s.interruptsEnabled
  /\ trace = s.trace

\* what is not a global of the main context, at reset
\* the observer of the encoder after initEncoderInput read channel A at
\* level pinA and the button at level buttonPressed
EncoderSeenAt(pinA, buttonPressed) ==
  [pinA |-> pinA,              \* channel A at the last sample
   button |-> buttonPressed,   \* the button at the last sample
   run |-> 0,                  \* button samples in a row equal to the one before
   net |-> 0,                  \* rising edges of A since the last consume of the
                               \* delta: +1 with B high, -1 with B low
   deltaConsumed |-> FALSE,    \* the delta was consumed since the last sample
   clickConsumed |-> FALSE,    \* the click was consumed since the last sample
   delta |-> 0,                \* value of the last consumeEncoderDelta()
   clicked |-> FALSE]          \* value of the last consumeEncoderButtonClick()

ObserversAtReset ==
  /\ isrCounters = [f \in TickFlags |-> 0]
  /\ baseTicks = 0
  /\ encoderSeen = EncoderSeenAt(TRUE, FALSE)
  /\ stale = [f \in TickFlags |-> 0]
  /\ uiEvents = 0
  /\ burst = [flag |-> "", since |-> 0, count |-> -1]

\* the state in which loop() is entered for the first time, for a record
\* found in EEPROM and the encoder at rest (pull-ups: both channels high,
\* button released)
AfterSetup(stored) ==
  /\ Is([setup(PowerOn(stored), TRUE, TRUE, FALSE) EXCEPT !.trace = <<>>])
  /\ ObserversAtReset
  /\ pc = "serial"

\* the number of tick interrupts followed: two of the longest period
MaxBaseTicks == 2000

\* One execution of the tick interrupt, with its counters tracked.
ISR ==
  /\ baseTicks < MaxBaseTicks
  /\ baseTicks' = baseTicks + 1
  /\ isrCounters' = ISRCounters(isrCounters)
  /\ Becomes(raiseFlags(State, ISRRaised(isrCounters)))
  /\ UNCHANGED <<encoderSeen, pc, stale, uiEvents>>

\* One execution of the tick interrupt that raises a flag, the value of its
\* counters being any value they can hold (the counters are not tracked).
TickInterrupt ==
  /\ \E F \in ISRRaisable : Becomes(raiseFlags(State, F))
  /\ UNCHANGED <<isrCounters, baseTicks, encoderSeen, pc, stale, uiEvents>>

\* The lines of loop() are taken one at a time below: a pass in which the
\* other lines find no flag pending and no input.  What is not a global of
\* the main context is left alone.
Others == <<isrCounters, baseTicks, encoderSeen, pc, stale, uiEvents>>

TimerSecondLine ==
  /\ Becomes(loopTimerSecondTick(State))
  /\ UNCHANGED Others

ThermostatLine ==
  /\ Becomes(loopThermostatControl(State))
  /\ UNCHANGED Others

TemperatureLine(Readings) ==
  /\ \E intervalElapsed \in BOOLEAN, temperature \in Readings :
        Becomes(loopTemperature(State, intervalElapsed, temperature))
  /\ UNCHANGED Others

(***************************************************************************)
(* Stored records.                                                         *)
(***************************************************************************)
Config(mode, target, freeze, wait, stop, resume) ==
  [version |-> CONFIG_VERSION, mode |-> mode, thermostatTargetC |-> target,
   freezeDurationSeconds |-> freeze, waitDurationSeconds |-> wait,
   timerStopTempC |-> stop, timerResumeTempC |-> resume]

\* phase durations of the stored records: the shortest ones the firmware accepts
MaxExtraSeconds == 2
ShortDurations == MIN_PHASE_DURATION_SECONDS..(MIN_PHASE_DURATION_SECONDS + MaxExtraSeconds)

(***************************************************************************)
(* SpecTimer: timer mode, the elapsed-second flag and its line of loop().  *)
(***************************************************************************)
TimerRecords ==
  {Config(OPERATION_MODE_TIMER, DEFAULT_THERMOSTAT_TARGET_C, f, w,
          DEFAULT_TIMER_STOP_TEMP_C, DEFAULT_TIMER_RESUME_TEMP_C) :
     f \in ShortDurations, w \in ShortDurations}

InitTimer == \E r \in TimerRecords : AfterSetup(r)

NextTimer == TickInterrupt \/ TimerSecondLine

SpecTimer == InitTimer /\ [][NextTimer]_vars

\* C1: in timer mode a handled elapsed-second tick adds exactly 1 to
\* elapsedSeconds and keeps the phase, unless the count reaches the current
\* phase's duration: then elapsedSeconds is 0 and the phase index is
\* (index + 1) mod 2, advanced once.  The flag is not counted: however many
\* interrupts raised it, one consume handles one tick and clears it, and a
\* line that finds no flag, like the interrupt itself, changes neither
\* elapsedSeconds nor the phase.
C1_TickAdvancesOnce ==
  [][ /\ TimerSecondLine =>
          IF timerSecondTickRequested
            THEN /\ ~timerSecondTickRequested'
                 /\ IF elapsedSeconds + 1 >= PHASES[currentPhaseIndex].durationSeconds
                      THEN /\ elapsedSeconds' = 0
                           /\ currentPhaseIndex' = (currentPhaseIndex + 1) % 2
                      ELSE /\ elapsedSeconds' = elapsedSeconds + 1
                           /\ currentPhaseIndex' = currentPhaseIndex
            ELSE UNCHANGED <<elapsedSeconds, currentPhaseIndex>>
      /\ TickInterrupt => UNCHANGED <<elapsedSeconds, currentPhaseIndex>>
    ]_vars

\* Freeze ran to its end and a first tick has been counted in Rest
C1_Witness ==
  /\ deviceConfig.mode = OPERATION_MODE_TIMER
  /\ currentPhaseIndex = 1
  /\ elapsedSeconds = 1
  /\ ~relayState
  /\ ~timerSecondTickRequested

(***************************************************************************)
(* SpecCutoff: timer mode with the temperature poll; the configuration     *)
(* and the mode are not changed.                                           *)
(***************************************************************************)
\* readings around the stop and resume bounds of the stored records, and the
\* value the sensor library returns for a probe that does not answer
CutoffReadings ==
  {DEVICE_DISCONNECTED_C,
   DEFAULT_TIMER_STOP_TEMP_C - 1, DEFAULT_TIMER_STOP_TEMP_C,
   DEFAULT_TIMER_STOP_TEMP_C + 1, DEFAULT_TIMER_RESUME_TEMP_C - 1,
   DEFAULT_TIMER_RESUME_TEMP_C, DEFAULT_TIMER_RESUME_TEMP_C + 1}

InitCutoff == \E r \in TimerRecords : AfterSetup(r)

CutoffTemperatureLine == TemperatureLine(CutoffReadings)

NextCutoff == TickInterrupt \/ CutoffTemperatureLine \/ TimerSecondLine

SpecCutoff == InitCutoff /\ [][NextCutoff]_vars

\* the temperature held after the step is a trusted reading at or above the
\* resume bound
ResumeReadingProcessed ==
  /\ temperatureSensorAvailable'
  /\ FGe(currentTemperatureC', deviceConfig.timerResumeTempC)

\* a trusted reading at or below the stop bound leaves the relay off
CutoffEngages ==
  (temperatureSensorAvailable' /\ FLe(currentTemperatureC', deviceConfig.timerStopTempC))
     => (timerCoolingPauseActive' /\ ~relayState')

\* C2 as stated: in timer mode, once a reading <= timerStopTempC has been
\* processed the relay is off, whatever the phase, and it stays off until a
\* reading >= timerResumeTempC is processed.
C2_CutoffHoldsUntilResume ==
  [][ /\ CutoffEngages
      /\ (timerCoolingPauseActive /\ ~ResumeReadingProcessed) => ~relayState'
    ]_vars

\* C2 amended: in timer mode, once a reading <= timerStopTempC has been
\* processed the relay is off, whatever the phase, and it stays off across
\* phase transitions until a reading >= timerResumeTempC is processed or the
\* sensor is found unavailable.
C2_CutoffHoldsWhileSensorTrusted ==
  [][ /\ CutoffEngages
      /\ (timerCoolingPauseActive /\ temperatureSensorAvailable' /\ ~ResumeReadingProcessed)
            => (timerCoolingPauseActive' /\ ~relayState')
    ]_vars

\* the cutoff holds the relay off in Freeze, with a reading inside the band
C2_Witness ==
  /\ deviceConfig.mode = OPERATION_MODE_TIMER
  /\ timerCoolingPauseActive /\ temperatureSensorAvailable
  /\ FGt(currentTemperatureC, deviceConfig.timerStopTempC)
  /\ FLt(currentTemperatureC, deviceConfig.timerResumeTempC)
  /\ currentPhaseIndex = 0 /\ elapsedSeconds > 0
  /\ desiredRelayState /\ ~relayState

(***************************************************************************)
(* SpecThermostat: thermostat mode with the temperature poll and the       *)
(* thermostat-control line; the configuration and the mode are not changed.*)
(***************************************************************************)
ThermostatTargets == {DEFAULT_THERMOSTAT_TARGET_C, THERMOSTAT_MAX_TARGET_C}

ThermostatRecords ==
  {Config(OPERATION_MODE_THERMOSTAT, target, MIN_PHASE_DURATION_SECONDS,
          MIN_PHASE_DURATION_SECONDS, DEFAULT_TIMER_STOP_TEMP_C,
          DEFAULT_TIMER_RESUME_TEMP_C) : target \in ThermostatTargets}

\* readings on, next to and inside the band of each stored target
ThermostatReadings ==
  {DEVICE_DISCONNECTED_C} \cup
  UNION {{target - THERMOSTAT_HYSTERESIS_C - 1, target - THERMOSTAT_HYSTERESIS_C,
          target - THERMOSTAT_HYSTERESIS_C + 1, target,
          target + THERMOSTAT_HYSTERESIS_C - 1, target + THERMOSTAT_HYSTERESIS_C,
          target + THERMOSTAT_HYSTERESIS_C + 1} : target \in ThermostatTargets}

InitThermostat == \E r \in ThermostatRecords : AfterSetup(r)

ThermostatTemperatureLine == TemperatureLine(ThermostatReadings)

NextThermostat == TickInterrupt \/ ThermostatTemperatureLine \/ ThermostatLine

SpecThermostat == InitThermostat /\ [][NextThermostat]_vars

upperBound == deviceConfig.thermostatTargetC + THERMOSTAT_HYSTERESIS_C
lowerBound == deviceConfig.thermostatTargetC - THERMOSTAT_HYSTERESIS_C

\* C3 as stated: in thermostat mode the latch goes from false to true only
\* with the temperature at or above target + hysteresis, and from true to
\* false only with the temperature at or below target - hysteresis; with the
\* temperature strictly between the bounds it does not change.
C3_LatchChangesOnlyAtBounds ==
  [][ /\ (~thermostatCoolingDemand /\ thermostatCoolingDemand')
            => currentTemperatureC' >= upperBound
      /\ (thermostatCoolingDemand /\ ~thermostatCoolingDemand')
            => currentTemperatureC' <= lowerBound
    ]_vars

\* C3 amended: in thermostat mode the latch goes from false to true only
\* with a trusted temperature at or above target + hysteresis, and from true
\* to false only with the temperature at or below target - hysteresis or
\* with the sensor unavailable; with a trusted temperature strictly between
\* the bounds it does not change.
C3_LatchChangesAtBoundsOrSensorLoss ==
  [][ /\ (~thermostatCoolingDemand /\ thermostatCoolingDemand')
            => (temperatureSensorAvailable' /\ currentTemperatureC' >= upperBound)
      /\ (thermostatCoolingDemand /\ ~thermostatCoolingDemand')
            => (~temperatureSensorAvailable' \/ currentTemperatureC' <= lowerBound)
      /\ (temperatureSensorAvailable' /\ currentTemperatureC' > lowerBound
          /\ currentTemperatureC' < upperBound)
            => thermostatCoolingDemand' = thermostatCoolingDemand
    ]_vars

\* the latch holds its value on an evaluation inside the band
C3_Witness ==
  /\ deviceConfig.mode = OPERATION_MODE_THERMOSTAT
  /\ temperatureSensorAvailable /\ ~thermostatControlRequested
  /\ currentTemperatureC > lowerBound /\ currentTemperatureC < upperBound
  /\ thermostatCoolingDemand /\ relayState

\* C4: with the sensor available an evaluation sets the latch to true if it
\* was false and temperature >= target + hysteresis, to false if it was true
\* and temperature <= target - hysteresis, and keeps it otherwise; the relay
\* equals the latch afterwards.  With target -12.0 a rising temperature
\* engages at -11.0 and not at -11.1, a falling one releases at -13.0 and
\* not at -12.9.
C4_HysteresisLatch ==
  [][ (ThermostatLine /\ thermostatControlRequested /\ temperatureSensorAvailable) =>
        /\ thermostatCoolingDemand' =
             (IF ~thermostatCoolingDemand /\ currentTemperatureC >= upperBound THEN TRUE
              ELSE IF thermostatCoolingDemand /\ currentTemperatureC <= lowerBound THEN FALSE
              ELSE thermostatCoolingDemand)
        /\ relayState' = thermostatCoolingDemand'
        /\ deviceConfig.thermostatTargetC = -120 =>
             /\ (~thermostatCoolingDemand /\ currentTemperatureC = -110) => thermostatCoolingDemand'
             /\ (~thermostatCoolingDemand /\ currentTemperatureC = -111) => ~thermostatCoolingDemand'
             /\ (thermostatCoolingDemand /\ currentTemperatureC = -130) => ~thermostatCoolingDemand'
             /\ (thermostatCoolingDemand /\ currentTemperatureC = -129) => thermostatCoolingDemand'
    ]_vars

\* target -12.0: the latch and the relay are on after an evaluation at -11.0
C4_Witness ==
  /\ deviceConfig.mode = OPERATION_MODE_THERMOSTAT
  /\ deviceConfig.thermostatTargetC = -120
  /\ temperatureSensorAvailable /\ currentTemperatureC = -110
  /\ ~thermostatControlRequested
  /\ thermostatCoolingDemand /\ relayState /\ relayPin

ERASED_BYTE == 255

\* how far the version tags of the stored records are from CONFIG_VERSION
MaxVersionSkew == 1

StoredVersions ==
  ((CONFIG_VERSION - MaxVersionSkew)..(CONFIG_VERSION + MaxVersionSkew)) \cup {ERASED_BYTE}

\* records with fields inside, on the edge of and outside their domains
StoredRecords ==
  [version : StoredVersions,
   mode : {OPERATION_MODE_TIMER, OPERATION_MODE_THERMOSTAT, ERASED_BYTE},
   thermostatTargetC : {THERMOSTAT_MIN_TARGET_C - 1, THERMOSTAT_MAX_TARGET_C, NaN},
   freezeDurationSeconds : {MIN_PHASE_DURATION_SECONDS - 1, MIN_PHASE_DURATION_SECONDS,
                            MAX_PHASE_DURATION_SECONDS + 1},
   waitDurationSeconds : {0, MAX_PHASE_DURATION_SECONDS},
   timerStopTempC : {TIMER_TEMP_MIN_C - 1, TIMER_TEMP_MIN_C, DEFAULT_TIMER_RESUME_TEMP_C, NaN},
   timerResumeTempC : {DEFAULT_TIMER_RESUME_TEMP_C, TIMER_TEMP_MAX_C + 1, NaN}]

InitLoad ==
  /\ \E r \in StoredRecords : Is(PowerOn(r))
  /\ ObserversAtReset
  /\ pc = "setup"

LoadConfig ==
  /\ pc = "setup"
  /\ pc' = "loaded"
  /\ Becomes(loadConfig(State))
  /\ UNCHANGED <<isrCounters, baseTicks, encoderSeen, stale, uiEvents>>

SetupAfterLoad ==
  /\ pc = "loaded"
  /\ pc' = "serial"
  /\ Becomes(setupAfterLoad(State, TRUE, TRUE, FALSE))
  /\ UNCHANGED <<isrCounters, baseTicks, encoderSeen, stale, uiEvents>>

NextLoad == LoadConfig \/ SetupAfterLoad

SpecLoad == InitLoad /\ [][NextLoad]_vars

\* the record of compiled-in defaults: timer mode, target -12.0 C, freeze
\* 30 min, rest 45 min, stop -18.0 C, resume -15.0 C
CompiledDefaults ==
  [version |-> CONFIG_VERSION, mode |-> OPERATION_MODE_TIMER,
   thermostatTargetC |-> DEFAULT_THERMOSTAT_TARGET_C,
   freezeDurationSeconds |-> DEFAULT_FREEZE_DURATION_SECONDS,
   waitDurationSeconds |-> DEFAULT_WAIT_DURATION_SECONDS,
   timerStopTempC |-> DEFAULT_TIMER_STOP_TEMP_C,
   timerResumeTempC |-> DEFAULT_TIMER_RESUME_TEMP_C]

\* C6: when the stored record's version tag differs from CONFIG_VERSION,
\* after loadConfig the live configuration equals the compiled-in defaults
\* in every field and the EEPROM holds exactly that record; the rest of
\* setup() leaves both as they are.
C6_VersionMismatchLoadsDefaults ==
  [][ /\ (LoadConfig /\ eeprom.version # CONFIG_VERSION)
            => (deviceConfig' = CompiledDefaults /\ eeprom' = CompiledDefaults)
      /\ (SetupAfterLoad /\ eeprom = CompiledDefaults)
            => (deviceConfig' = CompiledDefaults /\ eeprom' = CompiledDefaults)
    ]_vars

\* the defaults were loaded and written: no stored record equals them
C6_Witness ==
  /\ pc = "serial"
  /\ CompiledDefaults \notin StoredRecords
  /\ deviceConfig = CompiledDefaults
  /\ eeprom = CompiledDefaults
  /\ PHASES[0].durationSeconds = DEFAULT_FREEZE_DURATION_SECONDS

(***************************************************************************)
(* SpecMenu: the encoder menu.  The last line of loop() finds the delta    *)
(* and the click that the encoder samples have accumulated since the       *)
(* previous pass.                                                          *)
(***************************************************************************)
\* detents accumulated between two passes, in either direction
MaxDelta == 3
\* passes of loop() that find encoder input
MaxUiEvents == 5

Deltas == (-MaxDelta)..MaxDelta

UiLine(delta, click) ==
  /\ uiEvents < MaxUiEvents
  /\ delta # 0 \/ click
  /\ uiEvents' = uiEvents + 1
  /\ Becomes(loopUi([State EXCEPT !.encoderPendingDelta = delta,
                                  !.encoderButtonClicked = click]))
  /\ UNCHANGED <<isrCounters, baseTicks, encoderSeen, pc, stale>>

\* the defaults, a record on the upper edges of the domains, and a record
\* with a range set over serial that is off the 0.5 C grid of the editor
MenuRecords ==
  {makeDefaultConfig,
   Config(OPERATION_MODE_THERMOSTAT, THERMOSTAT_MAX_TARGET_C - EDIT_STEP_C,
          MAX_PHASE_DURATION_SECONDS - EDIT_STEP_SECONDS, MIN_PHASE_DURATION_SECONDS,
          TIMER_TEMP_MAX_C - 2 * EDIT_STEP_C, TIMER_TEMP_MAX_C),
   Config(OPERATION_MODE_TIMER, THERMOSTAT_MIN_TARGET_C,
          MIN_PHASE_DURATION_SECONDS + 1, DEFAULT_WAIT_DURATION_SECONDS,
          TIMER_TEMP_MIN_C, TIMER_TEMP_MIN_C + 2)}

InitMenu == \E r \in MenuRecords : AfterSetup(r)

NextMenu == \E delta \in Deltas, click \in BOOLEAN : UiLine(delta, click)

SpecMenu == InitMenu /\ [][NextMenu]_vars

\* the field of configuration c that menu item type edits
EditedField(c, type) ==
  CASE type = MENU_ITEM_MODE -> c.mode
    [] type = MENU_ITEM_FREEZE_DURATION -> c.freezeDurationSeconds
    [] type = MENU_ITEM_WAIT_DURATION -> c.waitDurationSeconds
    [] type = MENU_ITEM_STOP_TEMP -> c.timerStopTempC
    [] type = MENU_ITEM_RESUME_TEMP -> c.timerResumeTempC
    [] type = MENU_ITEM_THERMOSTAT_TARGET -> c.thermostatTargetC

\* the draft that the editor shows for the item being edited
ShownDraft(e) ==
  CASE e.itemType = MENU_ITEM_MODE -> e.modeValue
    [] e.itemType \in {MENU_ITEM_FREEZE_DURATION, MENU_ITEM_WAIT_DURATION} -> e.secondsValue
    [] OTHER -> e.floatValue

\* the draft lies in the domain of the edited field
DraftInDomain(e, c) ==
  CASE e.itemType = MENU_ITEM_MODE ->
         e.modeValue \in {OPERATION_MODE_TIMER, OPERATION_MODE_THERMOSTAT}
    [] e.itemType \in {MENU_ITEM_FREEZE_DURATION, MENU_ITEM_WAIT_DURATION} ->
         e.secondsValue \in MIN_PHASE_DURATION_SECONDS..MAX_PHASE_DURATION_SECONDS
    [] e.itemType = MENU_ITEM_STOP_TEMP ->
         e.floatValue \in TIMER_TEMP_MIN_C..TIMER_TEMP_MAX_C /\ e.floatValue < c.timerResumeTempC
    [] e.itemType = MENU_ITEM_RESUME_TEMP ->
         e.floatValue \in TIMER_TEMP_MIN_C..TIMER_TEMP_MAX_C /\ e.floatValue > c.timerStopTempC
    [] OTHER ->
         e.floatValue \in THERMOSTAT_MIN_TARGET_C..THERMOSTAT_MAX_TARGET_C

\* C7: a pass that finds a click in EditValue (with any last rotation)
\* commits: the editor is left, and the edited field of the live
\* configuration, read back right after, equals the draft that the editor
\* held, which lies in the field's domain; when the draft differed from
\* the value held before the edit, the field has changed.
C7_CommitStoresShownDraft ==
  [][\A delta \in Deltas :
       (UiLine(delta, TRUE) /\ uiState = UI_STATE_EDIT_VALUE)
         => /\ uiState' = UI_STATE_MENU_SELECT
            /\ editState'.itemType = editState.itemType
            /\ delta = 0 => editState' = editState
            /\ EditedField(deviceConfig', editState'.itemType) = ShownDraft(editState')
            /\ DraftInDomain(editState', deviceConfig')
    ]_vars

\* the stop temperature was turned up from -18.0 C against the resume
\* temperature of -15.0 C and committed at the clamp, -15.5 C
C7_Witness ==
  /\ uiState = UI_STATE_MENU_SELECT
  /\ editState.itemType = MENU_ITEM_STOP_TEMP
  /\ editState.floatValue = DEFAULT_TIMER_RESUME_TEMP_C - EDIT_STEP_C
  /\ deviceConfig.timerStopTempC = DEFAULT_TIMER_RESUME_TEMP_C - EDIT_STEP_C
  /\ deviceConfig.timerResumeTempC = DEFAULT_TIMER_RESUME_TEMP_C
  /\ eeprom = deviceConfig

\* C8: in MenuSelect, a pass that finds the accumulated rotation delta at
\* index i leaves the index (i + delta) mod 7, a value of 0..6, for
\* negative and for positive delta.
C8_MenuIndexWraps ==
  [][\A delta \in Deltas, click \in BOOLEAN :
       (UiLine(delta, click) /\ uiState = UI_STATE_MENU_SELECT)
         => /\ menuSelectionIndex' = (menuSelectionIndex + delta) % MENU_ITEM_COUNT
            /\ menuSelectionIndex' \in 0..(MENU_ITEM_COUNT - 1)
    ]_vars

\* the selection has gone round: two passes after reset, on item 5
C8_Witness ==
  /\ uiState = UI_STATE_MENU_SELECT
  /\ uiEvents = 2
  /\ menuSelectionIndex = MENU_ITEM_COUNT - 2

(***************************************************************************)
(* SpecConfig: the configuration under startup load, serial commands and   *)
(* menu commits.                                                           *)
(***************************************************************************)
SerialLineOf(command, keyword, args) ==
  [command |-> command, keyword |-> keyword, args |-> args]

\* lines with values inside, on the edge of and outside the domains, with
\* words that are no decimal numerals, and no line at all
ConfigLines ==
  {SerialLineOf("", "", <<>>),
   SerialLineOf("mode", "", <<"timer">>),
   SerialLineOf("mode", "", <<"thermo">>),
   SerialLineOf("mode", "", <<"off">>),
   SerialLineOf("temp", "", <<"-12.5">>),
   SerialLineOf("temp", "", <<"5.1">>),
   SerialLineOf("temp", "", <<"-31">>),
   SerialLineOf("temp", "", <<"cold">>),
   SerialLineOf("temp", "", <<"nan">>),
   SerialLineOf("frost", "time", <<"0:29">>),
   SerialLineOf("freeze", "time", <<"360:01">>),
   SerialLineOf("wait", "time", <<"0.4">>),
   SerialLineOf("rest", "time", <<"361">>),
   SerialLineOf("frost", "temp", <<"-41", "15.5">>),
   SerialLineOf("frost", "temp", <<"-15", "-18">>),
   SerialLineOf("freeze", "temp", <<"-18">>),
   SerialLineOf("frost", "temp", <<"nan", "-15">>)}

SerialLine(Lines) ==
  /\ uiEvents < MaxUiEvents
  /\ uiEvents' = uiEvents + 1
  /\ \E line \in Lines : Becomes(loopSerial(State, line))
  /\ UNCHANGED <<isrCounters, baseTicks, encoderSeen, pc, stale>>

\* stored records with finite fields: the defaults, a record of another
\* version, and records with the version tag of this firmware whose fields
\* are outside their domains
ConfigRecords ==
  {makeDefaultConfig,
   [makeDefaultConfig EXCEPT !.version = ERASED_BYTE, !.mode = ERASED_BYTE],
   Config(ERASED_BYTE, THERMOSTAT_MIN_TARGET_C - 1, MIN_PHASE_DURATION_SECONDS - 1,
          MAX_PHASE_DURATION_SECONDS + 1, TIMER_TEMP_MIN_C - 1, TIMER_TEMP_MAX_C + 1),
   Config(OPERATION_MODE_THERMOSTAT, THERMOSTAT_MAX_TARGET_C, MIN_PHASE_DURATION_SECONDS,
          MAX_PHASE_DURATION_SECONDS, DEFAULT_TIMER_RESUME_TEMP_C, DEFAULT_TIMER_STOP_TEMP_C)}

InitConfig == \E r \in ConfigRecords : AfterSetup(r)

ConfigSerialLine == SerialLine(ConfigLines)

NextConfig ==
  \/ ConfigSerialLine
  \/ \E delta \in Deltas, click \in BOOLEAN : UiLine(delta, click)

SpecConfig == InitConfig /\ [][NextConfig]_vars

\* C9: after startup load and after any sequence of menu commits and
\* serial commands, the mode is Timer or Thermostat, the thermostat target
\* lies in [-30, 5], both durations lie in [30, 21600] s, stop and resume
\* lie in [-40, 15], and stop < resume.
C9_ConfigInDomain ==
  /\ deviceConfig.mode \in {OPERATION_MODE_TIMER, OPERATION_MODE_THERMOSTAT}
  /\ deviceConfig.thermostatTargetC \in THERMOSTAT_MIN_TARGET_C..THERMOSTAT_MAX_TARGET_C
  /\ deviceConfig.freezeDurationSeconds \in MIN_PHASE_DURATION_SECONDS..MAX_PHASE_DURATION_SECONDS
  /\ deviceConfig.waitDurationSeconds \in MIN_PHASE_DURATION_SECONDS..MAX_PHASE_DURATION_SECONDS
  /\ deviceConfig.timerStopTempC \in TIMER_TEMP_MIN_C..TIMER_TEMP_MAX_C
  /\ deviceConfig.timerResumeTempC \in TIMER_TEMP_MIN_C..TIMER_TEMP_MAX_C
  /\ deviceConfig.timerStopTempC < deviceConfig.timerResumeTempC

(***************************************************************************)
(* Spec: loop() pass after pass, its lines in their order, the tick        *)
(* interrupt between any two of them.  pc names the line to run next.      *)
(* stale[f] counts the starts of a pass that flag f has been pending       *)
(* over since it was last consumed (counted up to 2).                      *)
(***************************************************************************)
\* elapsed seconds up to which the interrupt raises the elapsed-second flag
MaxLoopSeconds == 2

FlagPending(s, f) ==
  CASE f = "displayUpdateRequested" -> s.displayUpdateRequested
    [] f = "doorSampleRequested" -> s.doorSampleRequested
    [] f = "temperatureUpdateRequested" -> s.temperatureUpdateRequested
    [] f = "timerSecondTickRequested" -> s.timerSecondTickRequested
    [] f = "thermostatControlRequested" -> s.thermostatControlRequested
    [] f = "encoderSampleRequested" -> s.encoderSampleRequested

\* the line at pc has run and left the globals as in s; the next line is next
LineDone(s, next) ==
  /\ Becomes(s)
  /\ pc' = next
  /\ stale' = [f \in TickFlags |->
                 IF ~FlagPending(s, f) THEN 0
                 ELSE IF next # "serial" THEN stale[f]
                 ELSE IF stale[f] >= 1 THEN 2 ELSE 1]
  /\ UNCHANGED <<isrCounters, baseTicks, encoderSeen, uiEvents>>

LoopLines ==
  {SerialLineOf("", "", <<>>), SerialLineOf("mode", "", <<"timer">>),
   SerialLineOf("mode", "", <<"thermo">>)}

\* a reading at which the thermostat engages, and a failed reading
LoopReadings == {DEFAULT_THERMOSTAT_TARGET_C + THERMOSTAT_HYSTERESIS_C, DEVICE_DISCONNECTED_C}

LoopInterrupt ==
  /\ \E F \in ISRRaisable :
        /\ ("timerSecondTickRequested" \in F /\ deviceConfig.mode = OPERATION_MODE_TIMER)
              => elapsedSeconds < MaxLoopSeconds
        /\ Becomes(raiseFlags(State, F))
  /\ UNCHANGED <<isrCounters, baseTicks, encoderSeen, pc, stale, uiEvents>>

LoopSerial ==
  /\ pc = "serial"
  /\ \E line \in LoopLines : LineDone(loopSerial(State, line), "door")

LoopDoor ==
  /\ pc = "door"
  /\ \E pinHigh \in BOOLEAN : LineDone(loopDoor(State, pinHigh), "temperature")

LoopTemperature ==
  /\ pc = "temperature"
  /\ \E intervalElapsed \in BOOLEAN, temperature \in LoopReadings :
        LineDone(loopTemperature(State, intervalElapsed, temperature), "timer")

LoopTimerSecondTick ==
  /\ pc = "timer"
  /\ LineDone(loopTimerSecondTick(State), "thermostat")

LoopThermostatControl ==
  /\ pc = "thermostat"
  /\ LineDone(loopThermostatControl(State), "encoder")

\* the encoder is at rest
LoopEncoderSample ==
  /\ pc = "encoder"
  /\ LineDone(loopEncoderSample(State, TRUE, TRUE, FALSE), "display")

LoopDisplay ==
  /\ pc = "display"
  /\ LineDone(loopDisplay(State), "ui")

LoopUi ==
  /\ pc = "ui"
  /\ LineDone(loopUi(State), "serial")

LoopRecords ==
  {makeDefaultConfig, [makeDefaultConfig EXCEPT !.mode = OPERATION_MODE_THERMOSTAT]}

Init == \E r \in LoopRecords : AfterSetup(r)

Next ==
  \/ LoopInterrupt
  \/ LoopSerial
  \/ LoopDoor
  \/ LoopTemperature
  \/ LoopTimerSecondTick
  \/ LoopThermostatControl
  \/ LoopEncoderSample
  \/ LoopDisplay
  \/ LoopUi

Spec == Init /\ [][Next]_vars

\* C10: no flag is still pending when a second pass of loop() starts after
\* it was raised: each of the six flags, raised by the tick interrupt at
\* any point of a pass, is consumed at the latest by its line of the next
\* complete pass.
C10_DrainedByNextPass ==
  \A f \in TickFlags : stale[f] <= 1

\* the elapsed-second flag, which only the interrupt raises, was consumed
\* and handled in a pass that other flags were pending into
C10_Witness ==
  /\ pc = "thermostat"
  /\ elapsedSeconds = 1
  /\ ~timerSecondTickRequested
  /\ stale["timerSecondTickRequested"] = 0
  /\ stale["thermostatControlRequested"] = 1
  /\ stale["displayUpdateRequested"] = 1

(***************************************************************************)
(* SpecBurst: the interrupt raises flags any number of times between two   *)
(* consumes; the six consuming lines of loop() are taken in any order.     *)
(***************************************************************************)
\* raises of one flag that are counted between two consumes
MaxBurst == 2

\* the activity handler that the line of loop() consuming flag f calls
HandlerOf(f) ==
  CASE f = "displayUpdateRequested" -> "refreshDisplay"
    [] f = "doorSampleRequested" -> "updateDoorSensor"
    [] f = "temperatureUpdateRequested" -> "updateTemperature"
    [] f = "timerSecondTickRequested" -> "handleTimerSecondTick"
    [] f = "thermostatControlRequested" -> "updateThermostatControl"
    [] f = "encoderSampleRequested" -> "updateEncoderInput"

\* the line of loop() that consumes flag f, with the inputs its handler reads
DrainOf(s, f, pinHigh, temperature) ==
  CASE f = "displayUpdateRequested" -> loopDisplay(s)
    [] f = "doorSampleRequested" -> loopDoor(s, pinHigh)
    [] f = "temperatureUpdateRequested" -> loopTemperature(s, TRUE, temperature)
    [] f = "timerSecondTickRequested" -> loopTimerSecondTick(s)
    [] f = "thermostatControlRequested" -> loopThermostatControl(s)
    [] f = "encoderSampleRequested" -> loopEncoderSample(s, TRUE, TRUE, FALSE)

\* the events of the trace tr that satisfy Test
RECURSIVE CountEvents(_, _, _)
CountEvents(tr, ev, name) ==
  IF tr = <<>> THEN 0
  ELSE (IF Head(tr).ev = ev /\ Head(tr).name = name THEN 1 ELSE 0)
       + CountEvents(Tail(tr), ev, name)

BurstInterrupt ==
  /\ \E F \in ISRRaisable :
        /\ burst.flag \in F => burst.since < MaxBurst
        /\ ("timerSecondTickRequested" \in F /\ deviceConfig.mode = OPERATION_MODE_TIMER)
              => elapsedSeconds < MaxLoopSeconds
        /\ GlobalsBecome(raiseFlags(State, F))
        /\ burst' = [flag |-> burst.flag,
                     since |-> IF burst.flag \in F THEN burst.since + 1 ELSE burst.since,
                     count |-> -1]
  /\ trace' = <<>>
  /\ UNCHANGED Others

\* the door is closed and the sensor answers; what the line does is
\* observed when it consumes the watched flag
DrainLine(f) ==
  /\ LET s == DrainOf(State, f, FALSE, DEFAULT_THERMOSTAT_TARGET_C + THERMOSTAT_HYSTERESIS_C)
     IN /\ GlobalsBecome(s)
        /\ trace' = IF f = burst.flag THEN s.trace ELSE <<>>
  /\ burst' = IF f = burst.flag
                THEN [flag |-> f, since |-> 0, count |-> burst.since]
                ELSE [burst EXCEPT !.count = -1]
  /\ UNCHANGED Others

InitBurst ==
  /\ \E r \in LoopRecords :
        Is([setup(PowerOn(r), TRUE, TRUE, FALSE) EXCEPT !.trace = <<>>])
  /\ isrCounters = [f \in TickFlags |-> 0]
  /\ baseTicks = 0
  /\ encoderSeen = EncoderSeenAt(TRUE, FALSE)
  /\ stale = [f \in TickFlags |-> 0]
  /\ uiEvents = 0
  /\ pc = "serial"
  /\ \E f \in TickFlags : burst = [flag |-> f, since |-> 0, count |-> -1]

NextBurst == BurstInterrupt \/ \E f \in TickFlags : DrainLine(f)

SpecBurst == InitBurst /\ [][NextBurst]_vars

\* the value that the consume observed in the trace found in the flag
FoundPending(tr) ==
  \E i \in 1..Len(tr) : tr[i].ev = "read" /\ tr[i].name = burst.flag /\ tr[i].value

\* C11: right after a consume of a flag, whatever the number k of raises
\* since the previous consume of it: the flag was read once and is not
\* pending; if k >= 1 the consume found the flag pending; a consume that
\* found it pending cleared it once and the handler of the flag was called
\* at most once (exactly once where no mode test stands between the consume
\* and the call); a consume that found it not pending, there being no raise
\* since the previous consume, cleared nothing and called nothing.
C11_BurstCollapses ==
  burst.count >= 0 =>
    /\ CountEvents(trace, "read", burst.flag) = 1
    /\ ~FlagPending(State, burst.flag)
    /\ burst.count >= 1 => FoundPending(trace)
    /\ FoundPending(trace)
         => /\ CountEvents(trace, "write", burst.flag) = 1
            /\ CountEvents(trace, "call", HandlerOf(burst.flag)) <= 1
            /\ (burst.flag \notin {"timerSecondTickRequested", "thermostatControlRequested"})
                 => CountEvents(trace, "call", HandlerOf(burst.flag)) = 1
    /\ ~FoundPending(trace)
         => /\ CountEvents(trace, "write", burst.flag) = 0
            /\ CountEvents(trace, "call", HandlerOf(burst.flag)) = 0

\* the elapsed-second flag was raised twice, then consumed once, and one
\* second was counted for the two raises
C11_Witness ==
  /\ burst.flag = "timerSecondTickRequested"
  /\ burst.count = 2
  /\ elapsedSeconds = 1
  /\ ~timerSecondTickRequested
  /\ CountEvents(trace, "call", "handleTimerSecondTick") = 1

(***************************************************************************)
(* SpecAtomic: consumeSchedulerFlag of one flag, statement by statement,   *)
(* called again and again, against the tick interrupt, which the processor *)
(* runs only while the interrupt enable bit is set.  pc is the record of   *)
(* the statement to run next and of the local variable pending.            *)
(* burst.since counts the raises that no consume has reported yet.         *)
(***************************************************************************)
AtomicInterrupt ==
  /\ interruptsEnabled
  /\ \E F \in ISRRaisable :
        /\ burst.flag \in F => burst.since < MaxBurst
        /\ GlobalsBecome(raiseFlags(State, F))
        /\ burst' = [burst EXCEPT !.since = IF burst.flag \in F THEN @ + 1 ELSE @]
  /\ trace' = <<>>
  /\ UNCHANGED <<isrCounters, baseTicks, encoderSeen, pc, stale, uiEvents>>

ConsumeStep ==
  /\ LET r == consumeSchedulerFlagStep(State, burst.flag, pc)
     IN /\ GlobalsBecome(r.st)
        /\ pc' = r.at
  /\ burst' = IF pc.step = "return" /\ pc.pending
                THEN [burst EXCEPT !.since = 0, !.count = burst.since]
                ELSE [burst EXCEPT !.count = -1]
  /\ trace' = <<>>
  /\ UNCHANGED <<isrCounters, baseTicks, encoderSeen, stale, uiEvents>>

InitAtomic ==
  /\ \E r \in LoopRecords :
        Is([setup(PowerOn(r), TRUE, TRUE, FALSE) EXCEPT !.trace = <<>>])
  /\ isrCounters = [f \in TickFlags |-> 0]
  /\ baseTicks = 0
  /\ encoderSeen = EncoderSeenAt(TRUE, FALSE)
  /\ stale = [f \in TickFlags |-> 0]
  /\ uiEvents = 0
  /\ pc = [step |-> "enter", pending |-> FALSE]
  /\ \E f \in TickFlags : burst = [flag |-> f, since |-> 0, count |-> -1]

NextAtomic == AtomicInterrupt \/ ConsumeStep

SpecAtomic == InitAtomic /\ [][NextAtomic]_vars

\* the statements between the test and the clear, and the clear
InsideTestAndClear == pc.step \in {"test", "assign", "clear"}

\* C12: no raise lands between the test and the clear of a consume, and no
\* raise is lost: while a raise has not been reported by a consume, either
\* the flag is set, or a consume that has found the flag set has not
\* returned yet.
C12_ConsumeIsAtomic ==
  /\ [][AtomicInterrupt => ~InsideTestAndClear]_vars
  /\ [](burst.since >= 1 =>
          \/ FlagPending(State, burst.flag)
          \/ (pc.pending /\ pc.step \in {"clear", "interrupts", "return"}))
  /\ [](InsideTestAndClear => ~interruptsEnabled)

\* a consume has found the flag set and cleared it, and a raise that came
\* after interrupts() and before the return has set the flag for the next
\* consume
C12_Witness ==
  /\ pc.step = "return"
  /\ pc.pending
  /\ interruptsEnabled
  /\ FlagPending(State, burst.flag)
  /\ burst.since = 2

(***************************************************************************)
(* SpecPass: the program from power-on: setup(), then loop() pass after    *)
(* pass.  A step of the main context is one call of setup() or of loop(),  *)
(* and trace holds the events of the last such step in their order.  The   *)
(* tick interrupt runs between two passes and, within a pass, before one   *)
(* of its lines.                                                           *)
(***************************************************************************)
\* passes that find a serial line or encoder input
MaxPassInputs == 3

PassLines ==
  {SerialLineOf("", "", <<>>), SerialLineOf("mode", "", <<"timer">>),
   SerialLineOf("mode", "", <<"thermo">>), SerialLineOf("temp", "", <<"-12.5">>)}

\* delta and click that the encoder samples hand to the last line of a pass
PassEncoder == {<<0, FALSE>>, <<-2, FALSE>>, <<0, TRUE>>, <<1, TRUE>>}

\* door pin, and the temperature poll: a reading at which the thermostat
\* engages
PassSensors ==
  {[pinHigh |-> FALSE, intervalElapsed |-> TRUE,
    temperature |-> DEFAULT_THERMOSTAT_TARGET_C + THERMOSTAT_HYSTERESIS_C]}

\* the tick interrupt raising the flags `raised` before line `at` of a pass
\* (at = 0: no interrupt within the pass)
interruptBefore(s, at, raised, line) ==
  IF at = line THEN raiseFlags(s, raised) ELSE s

\* the door line and the temperature line exchanged
loop_exchanged(s, in) ==
  LET s1 == loopSerial(interruptBefore(s, in.at, in.raised, 1), in.line)
      s2 == loopTemperature(interruptBefore(s1, in.at, in.raised, 2),
                            in.intervalElapsed, in.temperature)
      s3 == loopDoor(interruptBefore(s2, in.at, in.raised, 3), in.pinHigh)
      s4 == loopTimerSecondTick(interruptBefore(s3, in.at, in.raised, 4))
      s5 == loopThermostatControl(interruptBefore(s4, in.at, in.raised, 5))
      s6 == loopEncoderSample(interruptBefore(s5, in.at, in.raised, 6), TRUE, TRUE, FALSE)
      s7 == loopDisplay(interruptBefore(s6, in.at, in.raised, 7))
      s8 == interruptBefore(s7, in.at, in.raised, 8)
  IN loopUi([s8 EXCEPT !.encoderPendingDelta = in.delta,
                       !.encoderButtonClicked = in.click])

\* one pass of loop(): in.line is the serial line found, in.delta and
\* in.click what the encoder samples have accumulated
loop(s, in) ==
  LET s1 == loopSerial(interruptBefore(s, in.at, in.raised, 1), in.line)
      s2 == loopDoor(interruptBefore(s1, in.at, in.raised, 2), in.pinHigh)
      s3 == loopTemperature(interruptBefore(s2, in.at, in.raised, 3),
                            in.intervalElapsed, in.temperature)
      s4 == loopTimerSecondTick(interruptBefore(s3, in.at, in.raised, 4))
      s5 == loopThermostatControl(interruptBefore(s4, in.at, in.raised, 5))
      s6 == loopEncoderSample(interruptBefore(s5, in.at, in.raised, 6), TRUE, TRUE, FALSE)
      s7 == loopDisplay(interruptBefore(s6, in.at, in.raised, 7))
      s8 == interruptBefore(s7, in.at, in.raised, 8)
  IN loopUi([s8 EXCEPT !.encoderPendingDelta = in.delta,
                       !.encoderButtonClicked = in.click])

\* the interrupt raises the elapsed-second flag up to MaxLoopSeconds
MayRaise(F) ==
  ("timerSecondTickRequested" \in F /\ deviceConfig.mode = OPERATION_MODE_TIMER)
     => elapsedSeconds < MaxLoopSeconds

\* the lines before which the interrupt runs within a pass: none, the
\* thermostat line (the lines above it have run, those below have not)
PassInterruptLines == {0, 5}

\* a pass finds a serial line or encoder input, not both
PassInputs ==
  {[line |-> l, delta |-> e[1], click |-> e[2], pinHigh |-> r.pinHigh,
    intervalElapsed |-> r.intervalElapsed, temperature |-> r.temperature,
    at |-> a, raised |-> TickFlags] :
     l \in PassLines, e \in PassEncoder, r \in PassSensors, a \in PassInterruptLines}

HasInput(in) == in.line.command # "" \/ in.delta # 0 \/ in.click

PassSetup ==
  /\ pc = "setup"
  /\ pc' = "serial"
  /\ Does(setup(State, TRUE, TRUE, FALSE))
  /\ burst' = burst
  /\ UNCHANGED <<isrCounters, baseTicks, encoderSeen, stale, uiEvents>>

PassInterrupt ==
  /\ pc = "serial"
  /\ \E F \in {TickFlags} :
        /\ MayRaise(F)
        /\ GlobalsBecome(raiseFlags(State, F))
  /\ UNCHANGED <<trace, burst, isrCounters, baseTicks, encoderSeen, pc, stale, uiEvents>>

Pass ==
  /\ pc = "serial"
  /\ \E in \in PassInputs :
        /\ HasInput(in) => uiEvents < MaxPassInputs
        /\ in.line.command = "" \/ (in.delta = 0 /\ ~in.click)
        /\ in.at # 0 => MayRaise(in.raised)
        /\ uiEvents' = IF HasInput(in) THEN uiEvents + 1 ELSE uiEvents
        /\ Does(loop(State, in))
  /\ burst' = burst
  /\ UNCHANGED <<isrCounters, baseTicks, encoderSeen, pc, stale>>

InitPass ==
  /\ \E r \in LoopRecords : Is(PowerOn(r))
  /\ ObserversAtReset
  /\ pc = "setup"

NextPass == PassSetup \/ PassInterrupt \/ Pass

SpecPass == InitPass /\ [][NextPass]_vars

\* the globals that are not scheduler flags
NonFlagGlobals ==
  <<relayState, desiredRelayState, currentPhaseIndex, elapsedSeconds,
    temperatureSensorAvailable, temperatureConversionPending,
    timerCoolingPauseActive, currentTemperatureC, deviceConfig,
    thermostatCoolingDemand, doorSensorAvailable, doorOpen, uiState,
    menuSelectionIndex, editState, encoderState, encoderPendingDelta,
    encoderButtonClicked, PHASES, eeprom, relayPin, interruptsEnabled>>

\* the events of the last step that read or write a scheduler flag
FlagAccesses == {i \in DOMAIN trace : trace[i].ev \in {"read", "write"}}

\* C13: the interrupt and the main context share the six flags only: a run
\* of the tick interrupt leaves every other global as it was and never
\* clears a flag, and the main context (setup, the dispatcher, the serial
\* commands and the menu) reads and writes a flag only while interrupts
\* are disabled.
C13_FlagsAreTheSharedState ==
  /\ [][PassInterrupt =>
          /\ UNCHANGED NonFlagGlobals
          /\ \A f \in TickFlags : FlagPending(State, f) => FlagPending(State', f)]_vars
  /\ [](\A i \in FlagAccesses :
          /\ trace[i].name \in TickFlags
          /\ ~trace[i].interruptsEnabled)

\* a serial command switched to thermostat mode: applyOperationMode set
\* the thermostat flag, which the dispatcher then read and cleared
C13_Witness ==
  /\ pc = "serial"
  /\ Len(trace) > 0
  /\ trace[1].name = "handleSerialCommands"
  /\ \E i, j, k \in FlagAccesses :
        /\ i < j /\ j < k
        /\ trace[i] = [ev |-> "write", name |-> "thermostatControlRequested", value |-> TRUE,
                       mode |-> OPERATION_MODE_THERMOSTAT, relayState |-> FALSE,
                       interruptsEnabled |-> FALSE]
        /\ trace[j].ev = "read" /\ trace[j].name = "thermostatControlRequested"
        /\ trace[k].ev = "write" /\ trace[k].name = "thermostatControlRequested"
        /\ ~trace[k].value

\* the values that the consumes of the last step found in flag f
FlagRead(tr, f) ==
  {tr[i].value : i \in {j \in DOMAIN tr : tr[j].ev = "read" /\ tr[j].name = f}}

\* the last step of the main context was setup()
SetupDone == pc = "serial" /\ Len(trace) > 0 /\ trace[1].name = "setup"

\* the first pass of loop()
FirstPass == SetupDone /\ Pass

\* the flags that requestSchedulerKickstart() assigns
KickstartFlags == TickFlags \ {"timerSecondTickRequested"}

\* C14 as claimed: the kickstart raises all six flags, so that setup()
\* leaves all six set and each of the six consumes of the first pass
\* returns true.
C14_KickstartRaisesAllSix ==
  /\ [](\A f \in TickFlags : FlagPending(requestSchedulerKickstart(State), f))
  /\ [][PassSetup => \A f \in TickFlags : FlagPending(State', f)]_vars
  /\ [][FirstPass => \A f \in TickFlags : FlagRead(trace', f) = {TRUE}]_vars

\* C14 amended: the kickstart raises the five flags other than the
\* elapsed-second flag and leaves that one as it is, so that setup()
\* leaves the five set and the elapsed-second flag clear; in the first
\* pass the five consumes return true, and the elapsed-second consume
\* returns true only if the tick interrupt has raised the flag since.
C14_KickstartRaisesFive ==
  /\ [](LET k == requestSchedulerKickstart(State)
        IN /\ \A f \in KickstartFlags : FlagPending(k, f)
           /\ k.timerSecondTickRequested = timerSecondTickRequested)
  /\ [][PassSetup =>
          /\ \A f \in KickstartFlags : FlagPending(State', f)
          /\ ~timerSecondTickRequested']_vars
  /\ [][FirstPass =>
          /\ \A f \in KickstartFlags : FlagRead(trace', f) = {TRUE}
          /\ FlagRead(trace', "timerSecondTickRequested") = {timerSecondTickRequested}]_vars

\* setup() has run from power-on: the kickstart has written five flags,
\* which are set, and the elapsed-second flag is clear
C14_Witness ==
  /\ SetupDone
  /\ \A f \in KickstartFlags :
        /\ FlagPending(State, f)
        /\ \E i \in FlagAccesses : trace[i].name = f /\ trace[i].ev = "write" /\ trace[i].value
  /\ ~timerSecondTickRequested
  /\ \A i \in FlagAccesses : trace[i].name # "timerSecondTickRequested"

\* the last step of the main context was a pass of loop()
PassDone == pc = "serial" /\ Len(trace) > 0 /\ trace[1].name # "setup"

\* where in the events of a pass a step of the dispatcher starts: the
\* consume of its flag for the six activities, the call for the serial
\* check and the UI-input step
StepStart(tr, step) ==
  {i \in DOMAIN tr :
     IF step \in TickFlags THEN tr[i].ev = "read" /\ tr[i].name = step
     ELSE tr[i].ev = "call" /\ tr[i].name = step}

\* the steps in steps occur once each, in the order of the sequence
InOrder(tr, steps) ==
  /\ \A k \in DOMAIN steps : Cardinality(StepStart(tr, steps[k])) = 1
  /\ \A k \in DOMAIN steps : \A m \in DOMAIN steps :
        k < m => \A i \in StepStart(tr, steps[k]) : \A j \in StepStart(tr, steps[m]) : i < j

\* C15 as claimed: in every pass the steps occur in the order door,
\* temperature, elapsed-second, thermostat, encoder, display, then the
\* serial check, then the UI-input step, which runs in every pass.
C15_SerialAfterDisplay ==
  PassDone =>
    InOrder(trace, <<"doorSampleRequested", "temperatureUpdateRequested",
                     "timerSecondTickRequested", "thermostatControlRequested",
                     "encoderSampleRequested", "displayUpdateRequested",
                     "handleSerialCommands", "processEncoderInterface">>)

\* C15 amended: in every pass the serial check comes first, then door,
\* temperature, elapsed-second, thermostat, encoder, display, then the
\* UI-input step, which runs in every pass whatever the flags; the
\* handler of a flag runs within the step of that flag.
C15_SerialFirst ==
  PassDone =>
    /\ InOrder(trace, <<"handleSerialCommands",
                        "doorSampleRequested", "temperatureUpdateRequested",
                        "timerSecondTickRequested", "thermostatControlRequested",
                        "encoderSampleRequested", "displayUpdateRequested",
                        "processEncoderInterface">>)
    /\ \A f \in TickFlags \ {"thermostatControlRequested"} :
          \A i \in StepStart(trace, HandlerOf(f)) :
             /\ trace[i - 1] = [trace[i] EXCEPT !.ev = "write", !.name = f, !.value = FALSE,
                                                !.interruptsEnabled = FALSE]
    /\ FlagRead(trace, "thermostatControlRequested") = {TRUE}
          /\ trace[1].mode = OPERATION_MODE_THERMOSTAT
          /\ trace[Len(trace)].mode = OPERATION_MODE_THERMOSTAT
          => \E r \in StepStart(trace, "thermostatControlRequested") :
               trace[r + 2].ev = "call" /\ trace[r + 2].name = "updateThermostatControl"

\* a pass that found all six flags set and a serial line that switched
\* from thermostat to timer mode: the five handlers of timer mode ran
C15_Witness ==
  /\ PassDone
  /\ \A f \in TickFlags : FlagRead(trace, f) = {TRUE}
  /\ \A f \in TickFlags \ {"thermostatControlRequested"} :
        StepStart(trace, HandlerOf(f)) # {}
  /\ trace[1].mode = OPERATION_MODE_THERMOSTAT
  /\ deviceConfig.mode = OPERATION_MODE_TIMER
  /\ elapsedSeconds = 1

\* C16: handleTimerSecondTick is never called while the mode is
\* Thermostat, and a step that starts and ends in Thermostat mode leaves
\* elapsedSeconds and currentPhaseIndex as they were; updateThermostatControl
\* is never called while the mode is Timer, by the dispatcher, a serial
\* command or a menu commit, and called in Timer mode it leaves the
\* latch, the desired state, the recorded relay state and the pin as
\* they were.
C16_ModeGating ==
  /\ [](\A i \in StepStart(trace, "handleTimerSecondTick") :
          trace[i].mode = OPERATION_MODE_TIMER)
  /\ [](\A i \in StepStart(trace, "updateThermostatControl") :
          trace[i].mode = OPERATION_MODE_THERMOSTAT)
  /\ [](deviceConfig.mode = OPERATION_MODE_TIMER =>
          LET u == updateThermostatControl(State)
          IN /\ u.thermostatCoolingDemand = thermostatCoolingDemand
             /\ u.desiredRelayState = desiredRelayState
             /\ u.relayState = relayState
             /\ u.relayPin = relayPin)
  /\ [][deviceConfig.mode = OPERATION_MODE_THERMOSTAT
          /\ deviceConfig'.mode = OPERATION_MODE_THERMOSTAT
            => /\ elapsedSeconds' = elapsedSeconds
               /\ currentPhaseIndex' = currentPhaseIndex]_vars

\* a pass in Thermostat mode found the elapsed-second flag set and
\* dropped it without a call of handleTimerSecondTick, while a serial temp
\* command and the thermostat drain both evaluated the thermostat, which
\* engaged the relay
C16_Witness ==
  /\ PassDone
  /\ trace[1].mode = OPERATION_MODE_THERMOSTAT
  /\ deviceConfig.mode = OPERATION_MODE_THERMOSTAT
  /\ FlagRead(trace, "timerSecondTickRequested") = {TRUE}
  /\ StepStart(trace, "handleTimerSecondTick") = {}
  /\ StepStart(trace, "updateThermostatControl") # {}
  /\ eeprom.thermostatTargetC = -125
  /\ elapsedSeconds = 0
  /\ thermostatCoolingDemand /\ relayState

\* the six activity handlers
Handlers == {HandlerOf(f) : f \in TickFlags}

\* the calls of handler h in the events of a pass that lie in the step of
\* the dispatcher for flag f: after the consume of f and before the next
\* step
DispatcherCalls(tr, f) ==
  {i \in StepStart(tr, HandlerOf(f)) :
     \E r \in StepStart(tr, f) :
        /\ r < i
        /\ \A j \in (r + 1)..(i - 1) : tr[j].name = f}

\* C17 as claimed: in a pass each of the six handlers is called at most
\* once, whatever serial command or menu commit the pass processes.
C17_AtMostOneCall ==
  PassDone => \A h \in Handlers : Cardinality(StepStart(trace, h)) <= 1

\* C17 amended: in a pass the dispatcher calls each of the six handlers
\* at most once, also when the flag is raised again within the pass; the
\* only other calls are those of updateThermostatControl made in
\* Thermostat mode by setThermostatTarget, at most one in the serial check
\* and one in the UI-input step.
C17_AtMostOneDispatcherCall ==
  PassDone =>
    /\ \A f \in TickFlags : Cardinality(DispatcherCalls(trace, f)) <= 1
    /\ \A f \in TickFlags \ {"thermostatControlRequested"} :
          StepStart(trace, HandlerOf(f)) = DispatcherCalls(trace, f)
    /\ LET others == StepStart(trace, "updateThermostatControl")
                        \ DispatcherCalls(trace, "thermostatControlRequested")
           first == CHOOSE i \in StepStart(trace, "doorSampleRequested") : TRUE
           last == CHOOSE i \in StepStart(trace, "processEncoderInterface") : TRUE
       IN /\ \A i \in others : trace[i].mode = OPERATION_MODE_THERMOSTAT
          /\ Cardinality({i \in others : i < first}) <= 1
          /\ Cardinality({i \in others : i > last}) <= 1
          /\ \A i \in others : i < first \/ i > last

\* a pass in Thermostat mode in which a serial temp command and then the
\* dispatcher called updateThermostatControl, and in which the door flag,
\* consumed and handled once, was raised again and is still set
C17_Witness ==
  /\ PassDone
  /\ Cardinality(StepStart(trace, "updateThermostatControl")) = 2
  /\ Cardinality(DispatcherCalls(trace, "thermostatControlRequested")) = 1
  /\ eeprom.thermostatTargetC = -125
  /\ Cardinality(StepStart(trace, "updateDoorSensor")) = 1
  /\ doorSampleRequested

(***************************************************************************)
(* SpecRelay: the relay pin under phase changes, temperature readings,     *)
(* thermostat evaluations and mode commands.  trace holds the events of    *)
(* the last line of loop() that ran.                                       *)
(***************************************************************************)
\* serial mode commands processed
MaxModeCommands == 2

RelayRecords ==
  {Config(mode, DEFAULT_THERMOSTAT_TARGET_C, MIN_PHASE_DURATION_SECONDS,
          MIN_PHASE_DURATION_SECONDS, DEFAULT_TIMER_STOP_TEMP_C,
          DEFAULT_TIMER_RESUME_TEMP_C) :
     mode \in {OPERATION_MODE_TIMER, OPERATION_MODE_THERMOSTAT}}

\* a failed reading, a reading at the stop bound of the timer mode, and a
\* reading above its resume bound at which the thermostat engages
RelayReadings ==
  {DEVICE_DISCONNECTED_C, DEFAULT_TIMER_STOP_TEMP_C,
   DEFAULT_THERMOSTAT_TARGET_C + THERMOSTAT_HYSTERESIS_C}

RelayModeLines ==
  {SerialLineOf("mode", "", <<"timer">>), SerialLineOf("mode", "", <<"thermo">>)}

InitRelay == \E r \in RelayRecords : AfterSetup(r)

RelayTimerLine ==
  /\ Does(loopTimerSecondTick(State))
  /\ burst' = burst
  /\ UNCHANGED Others

RelayThermostatLine ==
  /\ Does(loopThermostatControl(State))
  /\ burst' = burst
  /\ UNCHANGED Others

RelayTemperatureLine ==
  /\ \E temperature \in RelayReadings : Does(loopTemperature(State, TRUE, temperature))
  /\ burst' = burst
  /\ UNCHANGED Others

RelayModeLine ==
  /\ uiEvents < MaxModeCommands
  /\ uiEvents' = uiEvents + 1
  /\ \E line \in RelayModeLines : Does(loopSerial(State, line))
  /\ burst' = burst
  /\ UNCHANGED <<isrCounters, baseTicks, encoderSeen, pc, stale>>

NextRelay ==
  \/ TickInterrupt
  \/ RelayTimerLine
  \/ RelayThermostatLine
  \/ RelayTemperatureLine
  \/ RelayModeLine

SpecRelay == InitRelay /\ [][NextRelay]_vars

\* the writes of the relay pin among the events of the last step
RelayWrites == {i \in DOMAIN trace : trace[i].ev = "digitalWrite"}

\* the write at i is the one that applyOperationMode makes on entering
\* Thermostat mode: LOW, followed by the display request and by the
\* thermostat flag
ModeSwitchWrite(i) ==
  /\ ~trace[i].value
  /\ trace[i].mode = OPERATION_MODE_THERMOSTAT
  /\ i + 2 <= Len(trace)
  /\ trace[i + 1].ev = "write" /\ trace[i + 1].name = "displayUpdateRequested"
  /\ trace[i + 2].ev = "write" /\ trace[i + 2].name = "thermostatControlRequested"

SelectedItem == MENU_ITEMS[menuSelectionIndex']

\* C19: a pass that finds encoder input changes the UI state along one
\* edge at most: from Idle to MenuSelect on any input; from MenuSelect, on
\* a click, to Idle when the item selected is Exit and otherwise to
\* EditValue with the live value of that item as the draft, the
\* configuration untouched; from EditValue to MenuSelect on a click.
\* Without a click MenuSelect and EditValue are kept.  No pass leads
\* from Idle to EditValue or from EditValue to Idle.
C19_UiTransitions ==
  [][\A delta \in Deltas : \A click \in BOOLEAN :
       UiLine(delta, click) =>
         /\ uiState = UI_STATE_IDLE => uiState' = UI_STATE_MENU_SELECT
         /\ uiState = UI_STATE_MENU_SELECT /\ ~click => uiState' = UI_STATE_MENU_SELECT
         /\ uiState = UI_STATE_MENU_SELECT /\ click /\ SelectedItem = MENU_ITEM_EXIT
               => uiState' = UI_STATE_IDLE
         /\ uiState = UI_STATE_MENU_SELECT /\ click /\ SelectedItem # MENU_ITEM_EXIT
               => /\ uiState' = UI_STATE_EDIT_VALUE
                  /\ editState'.itemType = SelectedItem
                  /\ ShownDraft(editState') = EditedField(deviceConfig, SelectedItem)
                  /\ deviceConfig' = deviceConfig
                  /\ eeprom' = eeprom
         /\ uiState = UI_STATE_EDIT_VALUE /\ ~click => uiState' = UI_STATE_EDIT_VALUE
         /\ uiState = UI_STATE_EDIT_VALUE /\ click => uiState' = UI_STATE_MENU_SELECT
    ]_vars

\* the menu was opened by a rotation down to the thermostat target, and a
\* click entered the editor with the stored target as the draft
C19_Witness ==
  /\ uiEvents = 2
  /\ uiState = UI_STATE_EDIT_VALUE
  /\ menuSelectionIndex = 5
  /\ editState.itemType = MENU_ITEM_THERMOSTAT_TARGET
  /\ editState.floatValue = THERMOSTAT_MAX_TARGET_C - EDIT_STEP_C
  /\ deviceConfig.thermostatTargetC = THERMOSTAT_MAX_TARGET_C - EDIT_STEP_C

\* C20: a pass that finds a click while the UI is Idle opens the menu and
\* drops the click: the UI is in MenuSelect, on the item that the
\* rotation of that pass leads to, and the configuration, the stored
\* record, the draft and the relay are as they were.
C20_OpeningClickDiscarded ==
  [][\A delta \in Deltas :
       (UiLine(delta, TRUE) /\ uiState = UI_STATE_IDLE)
         => /\ uiState' = UI_STATE_MENU_SELECT
            /\ menuSelectionIndex' = wrapMenuIndex(delta)
            /\ editState' = editState
            /\ deviceConfig' = deviceConfig
            /\ eeprom' = eeprom
            /\ relayState' = relayState
            /\ ~encoderButtonClicked'
    ]_vars

\* the first input was a click without rotation: the menu is open on its
\* first item and nothing is being edited
C20_Witness ==
  /\ uiEvents = 1
  /\ uiState = UI_STATE_MENU_SELECT
  /\ menuSelectionIndex = 0
  /\ editState.itemType = MENU_ITEM_MODE
  /\ eeprom = deviceConfig

(***************************************************************************)
(* The editor and the setters, under SpecConfig and SpecMenu.              *)
(***************************************************************************)
\* the draft moved by delta steps of the edited item, before any clamp
MovedDraft(e, delta) ==
  CASE e.itemType = MENU_ITEM_MODE -> e.modeValue + delta
    [] e.itemType \in {MENU_ITEM_FREEZE_DURATION, MENU_ITEM_WAIT_DURATION} ->
         e.secondsValue + delta * EDIT_STEP_SECONDS
    [] OTHER -> FAdd(e.floatValue, delta * EDIT_STEP_C)

\* C21: a pass that finds a rotation and no click in EditValue leaves the
\* draft of the edited item in the domain of its field (a mode; a
\* duration in [30, 21600] s; a temperature in its range, the stop draft
\* below the live resume temperature and the resume draft above the live
\* stop temperature), and the draft is either the old draft moved by
\* delta steps (1 for the mode, 60 s, 0.5 C) or a value that a clamp put
\* in its place; the item, the state and the configuration are kept.
C21_AdjustKeepsDraftInDomain ==
  [][\A delta \in Deltas :
       (UiLine(delta, FALSE) /\ uiState = UI_STATE_EDIT_VALUE)
         => /\ uiState' = UI_STATE_EDIT_VALUE
            /\ editState'.itemType = editState.itemType
            /\ deviceConfig' = deviceConfig
            /\ DraftInDomain(editState', deviceConfig)
            /\ \/ ShownDraft(editState') = MovedDraft(editState, delta)
               \/ ShownDraft(editState') < MovedDraft(editState, delta) /\ delta > 0
               \/ ShownDraft(editState') > MovedDraft(editState, delta) /\ delta < 0
    ]_vars

\* SpecCommand: the configuration under startup load and serial commands
SpecCommand == InitConfig /\ [][ConfigSerialLine]_vars

\* the value nearest to v in lo..hi
Nearest(v, lo, hi) == IF v < lo THEN lo ELSE IF v > hi THEN hi ELSE v

\* what a serial line asks for: the field it names and the finite value
\* or pair of values it carries ("none" for any other line)
Asked(line) ==
  IF line.command = "temp" /\ parseFloatArgument(line.args).ok
       /\ parseFloatArgument(line.args).value # NaN
    THEN [field |-> "thermostatTargetC", value |-> parseFloatArgument(line.args).value]
  ELSE IF line.command \in {"frost", "freeze"} /\ line.keyword = "time"
       /\ parseDurationArgument(line.args).ok
    THEN [field |-> "freezeDurationSeconds", value |-> parseDurationArgument(line.args).seconds]
  ELSE IF line.command \in {"wait", "rest"} /\ line.keyword = "time"
       /\ parseDurationArgument(line.args).ok
    THEN [field |-> "waitDurationSeconds", value |-> parseDurationArgument(line.args).seconds]
  ELSE IF line.command \in {"frost", "freeze"} /\ line.keyword = "temp"
       /\ parseFloatPair(line.args).ok
       /\ parseFloatPair(line.args).first # NaN /\ parseFloatPair(line.args).second # NaN
    THEN [field |-> "timerTempRange", value |-> <<parseFloatPair(line.args).first,
                                                   parseFloatPair(line.args).second>>]
  ELSE [field |-> "none", value |-> 0]

\* the value asked for is outside the domain of its field
OutOfRange(a) ==
  CASE a.field = "thermostatTargetC" ->
         a.value \notin THERMOSTAT_MIN_TARGET_C..THERMOSTAT_MAX_TARGET_C
    [] a.field \in {"freezeDurationSeconds", "waitDurationSeconds"} ->
         a.value \notin MIN_PHASE_DURATION_SECONDS..MAX_PHASE_DURATION_SECONDS
    [] a.field = "timerTempRange" ->
         \/ a.value[1] \notin TIMER_TEMP_MIN_C..TIMER_TEMP_MAX_C
         \/ a.value[2] \notin TIMER_TEMP_MIN_C..TIMER_TEMP_MAX_C
         \/ a.value[1] >= a.value[2]
    [] OTHER -> FALSE

Outside(v, lo, hi) == FLt(v, lo) \/ FGt(v, hi)

\* record r has a field outside its domain, or stop >= resume
Corrupt(r) ==
  \/ r.mode \notin {OPERATION_MODE_TIMER, OPERATION_MODE_THERMOSTAT}
  \/ r.thermostatTargetC \notin THERMOSTAT_MIN_TARGET_C..THERMOSTAT_MAX_TARGET_C
  \/ r.freezeDurationSeconds \notin MIN_PHASE_DURATION_SECONDS..MAX_PHASE_DURATION_SECONDS
  \/ r.waitDurationSeconds \notin MIN_PHASE_DURATION_SECONDS..MAX_PHASE_DURATION_SECONDS
  \/ r.timerStopTempC \notin TIMER_TEMP_MIN_C..TIMER_TEMP_MAX_C
  \/ r.timerResumeTempC \notin TIMER_TEMP_MIN_C..TIMER_TEMP_MAX_C
  \/ r.timerStopTempC >= r.timerResumeTempC

C24_NoCutoffWithoutSensor ==
  (deviceConfig.mode = OPERATION_MODE_TIMER /\ ~temperatureSensorAvailable)
    => /\ ~timerCoolingPauseActive
       /\ relayState = PHASES[currentPhaseIndex].relayConnected
       /\ relayPin = relayState

\* the sensor was lost with the last reading at the stop bound, in the
\* Freeze phase: the relay is on
C24_Witness ==
  /\ deviceConfig.mode = OPERATION_MODE_TIMER
  /\ ~temperatureSensorAvailable /\ temperatureConversionPending
  /\ currentTemperatureC = deviceConfig.timerStopTempC
  /\ currentPhaseIndex = 0 /\ PHASES[0].relayConnected
  /\ ~timerCoolingPauseActive /\ relayState /\ relayPin

(***************************************************************************)
(* SpecSetters: the five setters, reached from serial commands and from    *)
(* the menu commit, after a startup load of any of the ConfigRecords.      *)
(***************************************************************************)
\* one line for each setter, a repeated mode, a refused pair and a NaN
SetterLines ==
  {SerialLineOf("mode", "", <<"timer">>),
   SerialLineOf("mode", "", <<"thermo">>),
   SerialLineOf("temp", "", <<"5.1">>),
   SerialLineOf("temp", "", <<"nan">>),
   SerialLineOf("frost", "time", <<"0:29">>),
   SerialLineOf("rest", "time", <<"361">>),
   SerialLineOf("frost", "temp", <<"-41", "15.5">>),
   SerialLineOf("frost", "temp", <<"-15", "-18">>)}

SetterSerialLine == SerialLine(SetterLines)

\* one detent either way, or a click
SetterUiLine ==
  \E delta \in {-1, 0, 1} : UiLine(delta, delta = 0)

NextSetters == SetterSerialLine \/ SetterUiLine

SpecSetters == InitConfig /\ [][NextSetters]_vars

\* C25: every serial command and every menu commit that changes the live
\* configuration or the EEPROM - a completed setter with an accepted
\* change - leaves the EEPROM record equal to the live DeviceConfig in every
\* field.
C25_AcceptedChangePersisted ==
  [][((SetterSerialLine \/ SetterUiLine)
        /\ (deviceConfig' # deviceConfig \/ eeprom' # eeprom))
       => eeprom' = deviceConfig'
    ]_vars

\* a record of this version with stop >= resume was loaded (the EEPROM
\* still differed from the live configuration), and the menu then committed
\* a freeze duration one step above the stored one: both hold it now
C25_Witness ==
  /\ uiEvents >= 3
  /\ uiState = UI_STATE_MENU_SELECT
  /\ deviceConfig.freezeDurationSeconds = MIN_PHASE_DURATION_SECONDS + EDIT_STEP_SECONDS
  /\ deviceConfig.timerStopTempC = DEFAULT_TIMER_STOP_TEMP_C
  /\ deviceConfig.thermostatTargetC = THERMOSTAT_MAX_TARGET_C
  /\ eeprom = deviceConfig

(***************************************************************************)
(* SpecTimerLive: SpecTimer with the tick interrupt and loop() running     *)
(* forever: an elapsed-second flag that is clear is raised again by the    *)
(* interrupt, and a flag that is raised is handled by its line of loop().  *)
(***************************************************************************)
SecondTickRaised ==
  TickInterrupt /\ ~timerSecondTickRequested /\ timerSecondTickRequested'

SecondTickHandled ==
  TimerSecondLine /\ timerSecondTickRequested

\* the stored records with the shortest duration for one phase and the
\* longest of ShortDurations for the other
LiveRecords ==
  {r \in TimerRecords :
     {r.freezeDurationSeconds, r.waitDurationSeconds} =
       {MIN_PHASE_DURATION_SECONDS, MIN_PHASE_DURATION_SECONDS + MaxExtraSeconds}}

InitTimerLive == \E r \in LiveRecords : AfterSetup(r)

SpecTimerLive ==
  /\ InitTimerLive
  /\ [][NextTimer]_vars
  /\ WF_vars(SecondTickRaised)
  /\ WF_vars(SecondTickHandled)

\* C26: in timer mode, with elapsed-second ticks handled for ever and the
\* configuration and the mode left alone, currentPhaseIndex is always 0 or
\* 1, it changes only to the other phase, every Freeze phase (0) is
\* eventually followed by Rest (1) and every Rest phase by Freeze.
C26_PhasesAlternateForever ==
  /\ [](currentPhaseIndex \in {0, 1})
  /\ [][currentPhaseIndex' # currentPhaseIndex
          => (SecondTickHandled /\ currentPhaseIndex' = 1 - currentPhaseIndex)]_vars
  /\ (currentPhaseIndex = 0) ~> (currentPhaseIndex = 1)
  /\ (currentPhaseIndex = 1) ~> (currentPhaseIndex = 0)

\* the Rest phase has just been entered from Freeze: no second of it has
\* elapsed and the relay is off
C26_Witness ==
  /\ deviceConfig.mode = OPERATION_MODE_TIMER
  /\ currentPhaseIndex = 1 /\ elapsedSeconds = 0
  /\ ~timerSecondTickRequested
  /\ ~desiredRelayState /\ ~relayState

(***************************************************************************)
(* SpecTicks: the tick interrupt with its six counters, and loop() lines   *)
(* that consume flags in between.                                          *)
(***************************************************************************)
\* the flags whose consumption is followed: the shortest and the longest
\* period
ConsumedFlags == {"encoderSampleRequested", "timerSecondTickRequested"}

ConsumeLine ==
  /\ \E f \in ConsumedFlags : Becomes(consumeSchedulerFlag(State, f).st)
  /\ UNCHANGED Others

InitTicks == AfterSetup(makeDefaultConfig)

NextTicks == ISR \/ ConsumeLine

SpecTicks == InitTicks /\ [][NextTicks]_vars

\* C27: the tick interrupt that makes the number of base ticks a multiple
\* of the period P of an activity raises the flag of that activity, and no
\* other interrupt does, whatever the other counters hold and whether the
\* flag was pending or not; a flag that was pending stays pending; after
\* each interrupt every counter is within 0..P-1 and holds the number of
\* base ticks modulo P; the tick that completes a second raises all six
\* flags.
C27_FlagEveryPeriod ==
  [][ISR =>
       /\ \A f \in TickFlags :
            /\ (f \in ISRRaised(isrCounters)) = (baseTicks' % IntervalOf(f) = 0)
            /\ FlagPending(State, f)' =
                 (FlagPending(State, f) \/ baseTicks' % IntervalOf(f) = 0)
            /\ isrCounters'[f] \in 0..(IntervalOf(f) - 1)
            /\ isrCounters'[f] = baseTicks' % IntervalOf(f)
       /\ baseTicks' = TIMER_SECOND_INTERVAL_MS => ISRRaised(isrCounters) = TickFlags
    ]_vars

\* the 1000th base tick found the elapsed-second flag clear and the encoder
\* flag consumed since the 995th: both are pending, all counters are at 0
C27_Witness ==
  /\ baseTicks = TIMER_SECOND_INTERVAL_MS
  /\ isrCounters = [f \in TickFlags |-> 0]
  /\ timerSecondTickRequested /\ encoderSampleRequested
  /\ displayUpdateRequested /\ thermostatControlRequested

(***************************************************************************)
(* SpecEncoder: the encoder line of loop() over any raw samples of the     *)
(* three pins, and the two consumes.                                       *)
(***************************************************************************)
\* the longest run of equal button samples that is followed (the counter
\* of the firmware stops at 5)
MaxRun == 6

\* the largest net rotation that is left unconsumed
MaxNet == 3

\* the encoder flag is raised by the tick interrupt and line 5 of loop()
\* samples the pins at levels pinA, pinB and the button at buttonPressed
EncoderSample(pinA, pinB, buttonPressed) ==
  LET run == IF buttonPressed = encoderSeen.button THEN encoderSeen.run + 1 ELSE 0
      net == IF pinA /\ ~encoderSeen.pinA
               THEN (IF pinB THEN encoderSeen.net + 1 ELSE encoderSeen.net - 1)
               ELSE encoderSeen.net
  IN /\ run <= MaxRun
     /\ net \in (-MaxNet)..MaxNet
     /\ encoderSeen' = [encoderSeen EXCEPT !.pinA = pinA, !.button = buttonPressed,
                                           !.run = run, !.net = net,
                                           !.deltaConsumed = FALSE,
                                           !.clickConsumed = FALSE]
     /\ Becomes(loopEncoderSample(raiseFlags(State, {"encoderSampleRequested"}),
                                  pinA, pinB, buttonPressed))
     /\ UNCHANGED <<isrCounters, baseTicks, pc, stale, uiEvents>>

ConsumeDelta ==
  /\ encoderSeen' = [encoderSeen EXCEPT !.net = 0, !.deltaConsumed = TRUE,
                                        !.delta = consumeEncoderDelta(State).delta]
  /\ Becomes(consumeEncoderDelta(State).st)
  /\ UNCHANGED <<isrCounters, baseTicks, pc, stale, uiEvents>>

ConsumeClick ==
  /\ encoderSeen' = [encoderSeen EXCEPT !.clickConsumed = TRUE,
                                        !.clicked = consumeEncoderButtonClick(State).clicked]
  /\ Becomes(consumeEncoderButtonClick(State).st)
  /\ UNCHANGED <<isrCounters, baseTicks, pc, stale, uiEvents>>

InitEncoder ==
  \E pinA \in BOOLEAN, pinB \in BOOLEAN, buttonPressed \in BOOLEAN :
    /\ Is([setup(PowerOn(makeDefaultConfig), pinA, pinB, buttonPressed) EXCEPT !.trace = <<>>])
    /\ isrCounters = [f \in TickFlags |-> 0]
    /\ baseTicks = 0
    /\ encoderSeen = EncoderSeenAt(pinA, buttonPressed)
    /\ stale = [f \in TickFlags |-> 0]
    /\ uiEvents = 0
    /\ burst = [flag |-> "", since |-> 0, count |-> -1]
    /\ pc = "serial"

NextEncoder ==
  \/ \E pinA \in BOOLEAN, pinB \in BOOLEAN, buttonPressed \in BOOLEAN :
       EncoderSample(pinA, pinB, buttonPressed)
  \/ ConsumeDelta
  \/ ConsumeClick

SpecEncoder == InitEncoder /\ [][NextEncoder]_vars

\* C28: a sample of the button changes the debounced state exactly when it
\* is the third sample in a row equal to the one before it (or a later one)
\* and its level differs from the debounced state; the click flag is set
\* exactly by such a sample at the released level, so once for each
\* debounced change from pressed to released; a sample at the pressed level
\* never sets it, and a sample of a shorter run changes neither the
\* debounced state nor the click flag.
C28_ClickPerDebouncedRelease ==
  [][\A pinA \in BOOLEAN, pinB \in BOOLEAN, buttonPressed \in BOOLEAN :
       EncoderSample(pinA, pinB, buttonPressed) =>
         LET stable == encoderState.buttonStableState
             accepted == encoderSeen'.run >= 3 /\ buttonPressed # stable
         IN /\ encoderState'.buttonStableState = (IF accepted THEN buttonPressed ELSE stable)
            /\ encoderButtonClicked' = (encoderButtonClicked \/ (accepted /\ ~buttonPressed))
            /\ (encoderButtonClicked' /\ ~encoderButtonClicked)
                 => (stable /\ ~encoderState'.buttonStableState)
            /\ (stable /\ ~encoderState'.buttonStableState) => encoderButtonClicked'
            /\ buttonPressed => encoderButtonClicked' = encoderButtonClicked
            /\ encoderSeen'.run < 3
                 => /\ encoderState'.buttonStableState = stable
                    /\ encoderButtonClicked' = encoderButtonClicked
    ]_vars

\* the button was held for the longest run followed and then released: the
\* third released sample in a row equal to the one before it has set the click
C28_Witness ==
  /\ ~encoderSeen.button /\ encoderSeen.run = 3
  /\ ~encoderState.buttonStableState
  /\ encoderState.buttonStableCounter = 3
  /\ encoderButtonClicked
  /\ ~encoderSeen.clickConsumed /\ ~encoderSeen.clicked

\* C29: the pending delta is the net count of rising edges of channel A
\* sampled since the previous consumeEncoderDelta (+1 with channel B high
\* at the edge, -1 with B low, nothing for a falling edge);
\* consumeEncoderDelta returns it and leaves 0, consumeEncoderButtonClick
\* returns the pending click and leaves false, and a consume that follows a
\* consume of the same kind with no sample in between returns 0 or false.
C29_ConsumedAtMostOnce ==
  [][/\ \A pinA \in BOOLEAN, pinB \in BOOLEAN, buttonPressed \in BOOLEAN :
          EncoderSample(pinA, pinB, buttonPressed)
            => encoderPendingDelta' = encoderSeen'.net
     /\ ConsumeDelta
          => /\ encoderSeen'.delta = encoderSeen.net
             /\ encoderPendingDelta' = 0
             /\ encoderSeen.deltaConsumed => encoderSeen'.delta = 0
     /\ ConsumeClick
          => /\ encoderSeen'.clicked = encoderButtonClicked
             /\ ~encoderButtonClicked'
             /\ encoderSeen.clickConsumed => ~encoderSeen'.clicked
    ]_vars

\* two rising edges of A with B low were sampled and then consumed: the
\* consume returned -2 and nothing is pending
C29_Witness ==
  /\ encoderSeen.deltaConsumed /\ encoderSeen.delta = -2
  /\ encoderSeen.net = 0 /\ encoderPendingDelta = 0
  /\ encoderSeen.pinA

(***************************************************************************)
(* The phase table, under SpecSetters.                                     *)
(***************************************************************************)
\* C30: in every state after the startup load - after every serial command,
\* menu step, setter and mode switch - the duration of the Freeze entry of
\* PHASES is deviceConfig.freezeDurationSeconds and that of the Rest entry
\* is deviceConfig.waitDurationSeconds.
C30_PhaseTableMirrorsConfig ==
  /\ PHASES[0].durationSeconds = deviceConfig.freezeDurationSeconds
  /\ PHASES[1].durationSeconds = deviceConfig.waitDurationSeconds

\* both durations were set over serial and clamped, to 30 s and to 6 h, and
\* the mode was switched: the table holds the clamped values
C30_Witness ==
  /\ deviceConfig.freezeDurationSeconds = MIN_PHASE_DURATION_SECONDS
  /\ deviceConfig.waitDurationSeconds = MAX_PHASE_DURATION_SECONDS
  /\ PHASES[0].durationSeconds = MIN_PHASE_DURATION_SECONDS
  /\ PHASES[1].durationSeconds = MAX_PHASE_DURATION_SECONDS
  /\ deviceConfig.thermostatTargetC = DEFAULT_THERMOSTAT_TARGET_C
  /\ deviceConfig.mode = OPERATION_MODE_THERMOSTAT
  /\ eeprom = deviceConfig
  /\ uiEvents = 3

(***************************************************************************)
(* The relay against the mode, under SpecRelay.                            *)
(***************************************************************************)
\* C31: after setup, after every line of loop() and every setter: in timer
\* mode the relay is on exactly when the current phase has relayConnected
\* and the cutoff latch is clear, so never in Rest and never with the latch
\* set; in thermostat mode relayState, desiredRelayState and
\* thermostatCoolingDemand are equal.
C31_RelayFollowsMode ==
  /\ deviceConfig.mode = OPERATION_MODE_TIMER
       => /\ relayState = (PHASES[currentPhaseIndex].relayConnected /\ ~timerCoolingPauseActive)
          /\ currentPhaseIndex = 1 => ~relayState
          /\ timerCoolingPauseActive => ~relayState
  /\ deviceConfig.mode = OPERATION_MODE_THERMOSTAT
       => /\ relayState = desiredRelayState
          /\ desiredRelayState = thermostatCoolingDemand

\* timer mode, Freeze phase, a reading at the stop bound has set the cutoff
\* latch after a switch of mode: the relay is off with the phase wanting it on
C31_Witness ==
  /\ deviceConfig.mode = OPERATION_MODE_TIMER
  /\ uiEvents >= 1
  /\ currentPhaseIndex = 0 /\ desiredRelayState
  /\ temperatureSensorAvailable
  /\ timerCoolingPauseActive
  /\ ~relayState /\ ~relayPin

(***************************************************************************)
(* SpecReapply: the mode commanded over serial or committed in the menu,   *)
(* with the timer and the temperature poll running.                        *)
(***************************************************************************)
\* the records of SpecRelay with a stored target above its domain: the load
\* replaces it in the live configuration only, so the EEPROM differs from
\* the live configuration until a setter saves
ReapplyRecords ==
  {[r EXCEPT !.thermostatTargetC = THERMOSTAT_MAX_TARGET_C + 1] : r \in RelayRecords}

\* the readings of SpecRelay and one between the stop and the resume bound
ReapplyReadings == RelayReadings \cup {DEFAULT_TIMER_STOP_TEMP_C + 1}

InitReapply == \E r \in ReapplyRecords : AfterSetup(r)

ReapplyTemperatureLine == TemperatureLine(ReapplyReadings)

\* the mode named by a line of RelayModeLines
ModeNamed(line) ==
  IF line.args = <<"timer">> THEN OPERATION_MODE_TIMER ELSE OPERATION_MODE_THERMOSTAT

NextReapply ==
  \/ TickInterrupt
  \/ TimerSecondLine
  \/ ThermostatLine
  \/ ReapplyTemperatureLine
  \/ SerialLine(RelayModeLines)
  \/ UiLine(0, TRUE)

SpecReapply == InitReapply /\ [][NextReapply]_vars

\* the step calls setOperationMode with the mode in force: a serial line
\* that names it, or a click that commits the Mode item with its draft
\* equal to it
SameModeSet ==
  \/ \E line \in RelayModeLines :
       SerialLine({line}) /\ ModeNamed(line) = deviceConfig.mode
  \/ /\ UiLine(0, TRUE)
     /\ uiState = UI_STATE_EDIT_VALUE
     /\ editState.itemType = MENU_ITEM_MODE
     /\ editState.modeValue = deviceConfig.mode

\* C32: setOperationMode with the mode in force, from a serial line or from
\* the menu commit, leaves the EEPROM and deviceConfig as they were and
\* applies the mode again: in timer mode the phase is Freeze with
\* elapsedSeconds 0 and the cutoff latch is cleared and evaluated afresh
\* (set only with a trusted temperature at or below the stop bound,
\* whatever it was before); in thermostat mode the latch of the cooling
\* demand is clear, the relay is off and thermostatControlRequested is set.
C32_SameModeReapplied ==
  [][SameModeSet =>
       /\ eeprom' = eeprom
       /\ deviceConfig' = deviceConfig
       /\ deviceConfig.mode = OPERATION_MODE_TIMER
            => /\ currentPhaseIndex' = 0
               /\ elapsedSeconds' = 0
               /\ desiredRelayState'
               /\ timerCoolingPauseActive' =
                    (temperatureSensorAvailable
                       /\ FLe(currentTemperatureC, deviceConfig.timerStopTempC))
               /\ relayState' = ~timerCoolingPauseActive'
       /\ deviceConfig.mode = OPERATION_MODE_THERMOSTAT
            => /\ ~thermostatCoolingDemand' /\ ~desiredRelayState'
               /\ ~relayState' /\ ~relayPin'
               /\ elapsedSeconds' = 0
               /\ thermostatControlRequested'
    ]_vars

\* "mode timer" was received in timer mode and nothing else was commanded:
\* Freeze has just started, the latch is clear with a reading between the
\* bounds, the relay is on, and the EEPROM still holds the target that the
\* load replaced
C32_Witness ==
  /\ deviceConfig.mode = OPERATION_MODE_TIMER
  /\ uiEvents >= 1 /\ uiState = UI_STATE_IDLE
  /\ eeprom.thermostatTargetC = THERMOSTAT_MAX_TARGET_C + 1
  /\ deviceConfig.thermostatTargetC = DEFAULT_THERMOSTAT_TARGET_C
  /\ temperatureSensorAvailable
  /\ currentTemperatureC = DEFAULT_TIMER_STOP_TEMP_C + 1
  /\ currentPhaseIndex = 0 /\ elapsedSeconds = 0
  /\ ~timerCoolingPauseActive /\ relayState

(***************************************************************************)
(* SpecKnob: loop() line by line with the encoder pins at any levels.  The *)
(* interrupt raises the encoder flag only; the first four lines run with   *)
(* no serial line and with the door and the sensor as at reset.            *)
(***************************************************************************)
\* the number of samples followed that leave a rotation or a click pending
MaxKnobInputs == 3

KnobInterrupt ==
  /\ Becomes(raiseFlags(State, {"encoderSampleRequested"}))
  /\ UNCHANGED <<isrCounters, baseTicks, encoderSeen, pc, stale, uiEvents>>

KnobFirstLines ==
  /\ pc = "serial"
  /\ LineDone(loopThermostatControl(loopTimerSecondTick(
                 loopTemperature(loopDoor(loopSerial(State, SerialLineOf("", "", <<>>)), FALSE),
                                 FALSE, DEVICE_DISCONNECTED_C))),
              "encoder")

\* line 5 with the pins at any levels; uiEvents counts the samples that
\* leave a rotation or a click pending
KnobSample ==
  /\ pc = "encoder"
  /\ \E pinA \in BOOLEAN, pinB \in BOOLEAN, buttonPressed \in BOOLEAN :
       LET s == loopEncoderSample(State, pinA, pinB, buttonPressed)
           input == s.encoderPendingDelta # 0 \/ s.encoderButtonClicked
       IN /\ input => uiEvents < MaxKnobInputs
          /\ uiEvents' = IF input THEN uiEvents + 1 ELSE uiEvents
          /\ Becomes(s)
  /\ pc' = "display"
  /\ UNCHANGED <<isrCounters, baseTicks, encoderSeen, stale>>

InitKnob == AfterSetup(makeDefaultConfig)

NextKnob ==
  \/ KnobInterrupt
  \/ KnobFirstLines
  \/ KnobSample
  \/ LoopDisplay
  \/ LoopUi

SpecKnob == InitKnob /\ [][NextKnob]_vars

\* C33: encoderPendingDelta is -1, 0 or +1 in every state; it is 0 from the
\* end of processEncoderInterface to the next sample of the encoder, so no
\* pass hands a rotation of more than one detent to the interface.
C33_DeltaWithinOne ==
  /\ encoderPendingDelta \in {-1, 0, 1}
  /\ pc \in {"serial", "encoder"} => encoderPendingDelta = 0

\* a rotation has opened the menu in an earlier pass and line 5 of this
\* pass has sampled an edge against the clock: -1 is pending
C33_Witness ==
  /\ pc = "display"
  /\ uiState = UI_STATE_MENU_SELECT
  /\ uiEvents >= 2
  /\ encoderPendingDelta = -1

(***************************************************************************)
(* SpecShorten: the timer running while durations and the mode are set     *)
(* over serial and in the menu.                                            *)
(***************************************************************************)
\* both phases one step of the editor above the shortest duration
ShortenRecords ==
  {Config(mode, DEFAULT_THERMOSTAT_TARGET_C,
          MIN_PHASE_DURATION_SECONDS + EDIT_STEP_SECONDS,
          MIN_PHASE_DURATION_SECONDS + EDIT_STEP_SECONDS,
          DEFAULT_TIMER_STOP_TEMP_C, DEFAULT_TIMER_RESUME_TEMP_C) :
     mode \in {OPERATION_MODE_TIMER, OPERATION_MODE_THERMOSTAT}}

\* lines that shorten either duration to 30 s, and the two modes
ShortenLines ==
  {SerialLineOf("frost", "time", <<"0:29">>),
   SerialLineOf("wait", "time", <<"0.4">>),
   SerialLineOf("mode", "", <<"timer">>),
   SerialLineOf("mode", "", <<"thermo">>)}

InitShorten == \E r \in ShortenRecords : AfterSetup(r)

\* the tick interrupt at the end of a second
SecondInterrupt ==
  /\ Becomes(raiseFlags(State, ISRRaised([f \in TickFlags |-> IntervalOf(f) - 1])))
  /\ UNCHANGED Others

ShortenSerialLine == SerialLine(ShortenLines)

NextShorten ==
  \/ SecondInterrupt
  \/ TimerSecondLine
  \/ ShortenSerialLine
  \/ SetterUiLine

SpecShorten == InitShorten /\ [][NextShorten]_vars

\* C34: in timer mode elapsedSeconds is within 0 and the duration of the
\* current phase after every line of loop() and every setter; a setter
\* that shortens the duration of the current phase below the elapsed count
\* leaves the count at the new duration and the phase as it was, and the
\* next handled tick changes the phase; in thermostat mode elapsedSeconds
\* is 0.
C34_ElapsedWithinPhase ==
  /\ [](deviceConfig.mode = OPERATION_MODE_TIMER
          => /\ elapsedSeconds >= 0
             /\ elapsedSeconds <= PHASES[currentPhaseIndex].durationSeconds)
  /\ [](deviceConfig.mode = OPERATION_MODE_THERMOSTAT => elapsedSeconds = 0)
  /\ [][((ShortenSerialLine \/ SetterUiLine)
          /\ deviceConfig.mode = OPERATION_MODE_TIMER
          /\ deviceConfig'.mode = OPERATION_MODE_TIMER
          /\ PHASES'[currentPhaseIndex].durationSeconds < elapsedSeconds)
         => /\ elapsedSeconds' = PHASES'[currentPhaseIndex].durationSeconds
            /\ currentPhaseIndex' = currentPhaseIndex]_vars
  /\ [][(TimerSecondLine /\ timerSecondTickRequested
          /\ deviceConfig.mode = OPERATION_MODE_TIMER
          /\ elapsedSeconds = PHASES[currentPhaseIndex].durationSeconds)
         => /\ currentPhaseIndex' = 1 - currentPhaseIndex
            /\ elapsedSeconds' = 0]_vars

\* the Rest phase was shortened to 30 s over serial after more than 30 s
\* of it: the count stands at 30 and the phase is still Rest
C34_Witness ==
  /\ deviceConfig.mode = OPERATION_MODE_TIMER
  /\ currentPhaseIndex = 1
  /\ deviceConfig.waitDurationSeconds = MIN_PHASE_DURATION_SECONDS
  /\ PHASES[1].durationSeconds = MIN_PHASE_DURATION_SECONDS
  /\ elapsedSeconds = MIN_PHASE_DURATION_SECONDS
  /\ uiState = UI_STATE_IDLE

====
